---------------------------- MODULE Spec2Model ----------------------------
(***************************************************************************)
(* A model of the resumable synchronisation engine of producer-ai-sync:    *)
(* the manifest (persisted catalog store), the reconciler (mergeFavorites  *)
(* / mergeTracks), the two acquisition engines (downloadPendingFavorites   *)
(* of sync-favorites.ts and downloadPendingTracks of the modular           *)
(* downloader) and the filesystem verifier (verifyDriveFiles /             *)
(* verifyDownloadedFiles).                                                 *)
(*                                                                         *)
(* Strings that the code computes with (titles, artist names, file names)  *)
(* are sequences of one-character strings, so that sanitizeFilename is     *)
(* modelled by what it does.  Undefined optional fields are modelled by    *)
(* the values NoName, NoSize, NoTime and NoError.                          *)
(***************************************************************************)
EXTENDS Integers, Sequences, FiniteSets, TLC

\* ------------------------------------------------------------------ bounds

\* number of distinct remote item ids
NumIds == 2
\* longest remote listing handed to one merge
MaxListing == 2
\* number of sync runs in one behaviour
MaxRuns == 2
\* number of --verify runs in one behaviour
MaxVerifies == 1
\* largest creation timestamp a remote record carries
MaxTime == 2
\* largest --batch value
MaxBatch == 2
\* number of changes the user makes to the output directory
MaxUserOps == 1
\* number of failures of the environment (a raised exception, a failed file
\* operation) in one run of an engine
MaxFaults == 1
\* number of records of the listing the remote holds
MaxRemote == 4
\* largest page size (limit) of a paged request
MaxPageSize == 2
\* the latest request of an enumeration that the environment fails
MaxFailAt == 3
\* longest text of the --batch argument
MaxArgLen == 3

\* ------------------------------------------------------- program constants

\* the size threshold of the staged artifact check (fileStats.size > 10000)
MinFileSize == 10000
\* MAX_CONSECUTIVE_FAILURES of the modular downloader
MaxFailModular == 5
\* MAX_CONSECUTIVE_FAILURES of sync-favorites.ts
MaxFailLegacy == 20
\* the limit the README documents
MaxFailReadme == 5
\* bytes per megabyte in fileStats.size / 1024 / 1024
BytesPerMB == 1048576
\* the default of --batch
DefaultBatch == 10

\* The number of items of the manifest a restart finds (SpecRestart): one
\* more than the limit of the modular downloader, so that a run can go on
\* after as many failures as the limit.
QueueLen == MaxFailModular + 1

\* ------------------------------------------------------------- data model

IdNames == <<"i1", "i2", "i3", "i4", "i5", "i6", "i7", "i8", "i9">>
Ids == {IdNames[n] : n \in 1..NumIds}
\* a remote record without an id (skipped by merge: if (!gen.id) continue)
NoId == ""

NoName == << >>
NoSize == -1
NoTime == 0
NoError == ""

Ext == ".wav"
UnknownArtist == <<"U">>
Untitled == <<"u">>

Authors == {"u1"}
ArtistNames == { <<"A">> }

Statuses == {"pending", "downloaded", "failed"}

\* ------------------------------------------------------- sanitizeFilename

Forbidden == {"/", "\\", "?", "%", "*", ":", "|", "\"", "<", ">"}
IsSpace(c) == c = " "

\* .replace(/[/\\?%*:|"<>]/g, "-")
ReplaceForbidden(s) == [k \in 1..Len(s) |-> IF s[k] \in Forbidden THEN "-" ELSE s[k]]

RECURSIVE CollapseSpaces(_)
\* .replace(/\s+/g, " ")
CollapseSpaces(s) ==
  IF Len(s) = 0 THEN << >>
  ELSE IF IsSpace(s[1])
       THEN IF Len(s) > 1 /\ IsSpace(s[2])
            THEN CollapseSpaces(Tail(s))
            ELSE <<" ">> \o CollapseSpaces(Tail(s))
       ELSE <<s[1]>> \o CollapseSpaces(Tail(s))

RECURSIVE TrimLeft(_)
TrimLeft(s) == IF Len(s) > 0 /\ IsSpace(s[1]) THEN TrimLeft(Tail(s)) ELSE s

RECURSIVE TrimRight(_)
TrimRight(s) ==
  IF Len(s) > 0 /\ IsSpace(s[Len(s)]) THEN TrimRight(SubSeq(s, 1, Len(s) - 1)) ELSE s

\* .trim()
Trim(s) == TrimRight(TrimLeft(s))

sanitizeFilename(name) == Trim(CollapseSpaces(ReplaceForbidden(name)))

\* `${songId}.wav`
UuidFilename(id) == <<id, Ext>>
\* sanitizeFilename(`${artist} - ${title}.wav`)
TitleFilename(artist, title) ==
  sanitizeFilename(artist \o <<" ", "-", " ">> \o title \o <<Ext>>)

\* ------------------------------------------------------------ the manifest

\* The creation time the remote reports for an id (0: the record carries no
\* created_at); ids share creation times, so that the queue has ties.
IdIndex(id) == CHOOSE n \in 1..Len(IdNames) : IdNames[n] = id
CreatedOf(id) == IdIndex(id) % (MaxTime + 1)

\* The title the remote reports for an id: ids share titles, and the second
\* title is one that sanitizeFilename rewrites.
TitleOf(id) == IF IdIndex(id) % 2 = 1 THEN <<"a">> ELSE <<"/">>

\* One remote record (GenerationData): id, title, author_id, created_at.
Gen(id) ==
  [id |-> id,
   title |-> IF id = NoId THEN Untitled ELSE TitleOf(id),
   author_id |-> "u1",
   created_at |-> IF id = NoId THEN 0 ELSE CreatedOf(id)]
Gens == {Gen(id) : id \in Ids \cup {NoId}}

\* The manifest: tracks is a Record<string, TrackMetadata>; keys is the
\* insertion order of its keys, which Object.values() follows.
EmptyManifest == [keys |-> << >>, tracks |-> << >>]

HasTrack(m, id) == id \in DOMAIN m.tracks

\* Object.values(manifest.tracks)
Values(m) == [k \in 1..Len(m.keys) |-> m.tracks[m.keys[k]]]

\* usernameMap.get(authorId) ?? "Unknown Artist"
ArtistOf(usernameMap, authorId) ==
  IF authorId \in DOMAIN usernameMap THEN usernameMap[authorId] ELSE UnknownArtist

\* a creation that looks for the label-derived name first
NewTrackTitleFirst(gen, artist, files) ==
  LET uuidFilename == UuidFilename(gen.id)
      titleFilename == TitleFilename(artist, gen.title)
      alreadyOnDrive == uuidFilename \in files \/ titleFilename \in files
      driveFilename == IF titleFilename \in files THEN titleFilename
                       ELSE IF uuidFilename \in files THEN uuidFilename
                       ELSE NoName
  IN [id |-> gen.id,
      title |-> gen.title,
      artist |-> artist,
      createdAt |-> gen.created_at,
      status |-> IF alreadyOnDrive THEN "downloaded" ELSE "pending",
      driveFilename |-> driveFilename,
      fileSizeMB |-> NoSize,
      lastAttempt |-> NoTime,
      error |-> NoError]

\* the entry merge creates for an id it has not seen
NewTrack(gen, artist, files) ==
  LET uuidFilename == UuidFilename(gen.id)
      titleFilename == TitleFilename(artist, gen.title)
      alreadyOnDrive == uuidFilename \in files \/ titleFilename \in files
      driveFilename == IF uuidFilename \in files THEN uuidFilename
                       ELSE IF titleFilename \in files THEN titleFilename
                       ELSE NoName
  IN [id |-> gen.id,
      title |-> gen.title,
      artist |-> artist,
      createdAt |-> gen.created_at,
      status |-> IF alreadyOnDrive THEN "downloaded" ELSE "pending",
      driveFilename |-> driveFilename,
      fileSizeMB |-> NoSize,
      lastAttempt |-> NoTime,
      error |-> NoError]

\* A refresh that also starts the item over (status pending, error cleared):
\* the merge C1 rules out.
RefreshTrackResetting(existing, gen, artist) ==
  [existing EXCEPT !.title = gen.title, !.artist = artist, !.createdAt = gen.created_at,
                   !.status = "pending", !.error = NoError]

\* the entry merge leaves for an id it already has: metadata refreshed
RefreshTrack(existing, gen, artist) ==
  [existing EXCEPT !.title = gen.title, !.artist = artist, !.createdAt = gen.created_at]

\* A merge step without the test for an existing entry: every listed id is
\* created anew and counted.
MergeOneRecreating(acc, gen, usernameMap, files) ==
  IF gen.id = NoId THEN acc
  ELSE LET artist == ArtistOf(usernameMap, gen.author_id)
           m == acc.m
       IN [m |-> [keys |-> IF HasTrack(m, gen.id) THEN m.keys ELSE Append(m.keys, gen.id),
                  tracks |-> [k \in DOMAIN m.tracks \cup {gen.id} |->
                                IF k = gen.id THEN NewTrack(gen, artist, files)
                                ELSE m.tracks[k]]],
           newCount |-> acc.newCount + 1]

\* one iteration of the loop of mergeTracks / mergeFavorites; acc is
\* [m |-> manifest, newCount |-> number of entries created so far]
MergeOne(acc, gen, usernameMap, files) ==
  IF gen.id = NoId THEN acc
  ELSE LET artist == ArtistOf(usernameMap, gen.author_id)
           m == acc.m
       IN IF ~HasTrack(m, gen.id)
          THEN [m |-> [keys |-> Append(m.keys, gen.id),
                       tracks |-> [k \in DOMAIN m.tracks \cup {gen.id} |->
                                     IF k = gen.id THEN NewTrack(gen, artist, files)
                                     ELSE m.tracks[k]]],
                newCount |-> acc.newCount + 1]
          ELSE [m |-> [m EXCEPT !.tracks[gen.id] = RefreshTrack(@, gen, artist)],
                newCount |-> acc.newCount]

RECURSIVE MergeLoop(_, _, _, _)
MergeLoop(acc, generations, usernameMap, files) ==
  IF Len(generations) = 0 THEN acc
  ELSE MergeLoop(MergeOne(acc, Head(generations), usernameMap, files),
                 Tail(generations), usernameMap, files)

\* a merge that builds the manifest from the listing alone
mergeTracksFresh(m, generations, usernameMap, files) ==
  MergeLoop([m |-> EmptyManifest, newCount |-> 0], generations, usernameMap, files)

\* mergeTracks(manifest, generations, usernameMap, outputDir): the manifest
\* after the call and the newCount it returns
mergeTracks(m, generations, usernameMap, files) ==
  MergeLoop([m |-> m, newCount |-> 0], generations, usernameMap, files)

\* ------------------------------------------------------------ the verifier

VerifyMsgModular == "File missing from output directory (detected by --verify)"
VerifyMsgLegacy == "File missing from Drive (detected by --verify)"

\* a verify loop body that resets the status and leaves the file name
VerifyTrackKeepingName(track, files, msg) ==
  LET found == UuidFilename(track.id) \in files
               \/ TitleFilename(track.artist, track.title) \in files
  IN IF track.status = "downloaded" /\ ~found
     THEN [track EXCEPT !.status = "pending", !.error = msg]
     ELSE track

\* a verify loop body that also sends failed items back to pending
VerifyTrackRetryingFailed(track, files, msg) ==
  LET found == UuidFilename(track.id) \in files
               \/ TitleFilename(track.artist, track.title) \in files
  IN IF track.status = "downloaded" /\ ~found
     THEN [track EXCEPT !.status = "pending", !.driveFilename = NoName, !.error = msg]
     ELSE IF track.status = "failed"
          THEN [track EXCEPT !.status = "pending", !.error = NoError]
          ELSE track

\* the body of the for loop of verifyDownloadedFiles / verifyDriveFiles
VerifyTrack(track, files, msg) ==
  LET found == UuidFilename(track.id) \in files
               \/ TitleFilename(track.artist, track.title) \in files
  IN IF track.status = "downloaded" /\ ~found
     THEN [track EXCEPT !.status = "pending", !.driveFilename = NoName, !.error = msg]
     ELSE track

\* a verify that takes a directory it cannot list for an empty one
verifyTakingUnlistedAsEmpty(m, files, dirOk, msg) ==
  LET downloaded == {id \in DOMAIN m.tracks : m.tracks[id].status = "downloaded"}
      seen == IF dirOk THEN files ELSE {}
      after == [id \in DOMAIN m.tracks |-> VerifyTrack(m.tracks[id], seen, msg)]
      missing == Cardinality({id \in downloaded : after[id].status # "downloaded"})
  IN IF downloaded = {}
     THEN [m |-> m, missing |-> 0, verified |-> 0]
     ELSE [m |-> [m EXCEPT !.tracks = after],
           missing |-> missing,
           verified |-> Cardinality(downloaded) - missing]

\* verifyDownloadedFiles(manifest, outputDir): dirOk is whether readdir
\* succeeded; the result is the manifest after the call and the two counts
verifyDownloadedFiles(m, files, dirOk, msg) ==
  LET downloaded == {id \in DOMAIN m.tracks : m.tracks[id].status = "downloaded"}
      after == [id \in DOMAIN m.tracks |-> VerifyTrack(m.tracks[id], files, msg)]
      missing == Cardinality({id \in downloaded : after[id].status # "downloaded"})
  IN IF downloaded = {} \/ ~dirOk
     THEN [m |-> m, missing |-> 0, verified |-> 0]
     ELSE [m |-> [m EXCEPT !.tracks = after],
           missing |-> missing,
           verified |-> Cardinality(downloaded) - missing]

\* ------------------------------------------------------ the download queue

\* a.createdAt ? new Date(a.createdAt).getTime() : 0
TimeOf(track) == IF track.createdAt = NoTime THEN 0 ELSE track.createdAt

\* a comparator that puts the oldest item of a group first
CompareOldestFirst(a, b) ==
  IF a.status # b.status
  THEN IF a.status = "pending" THEN -1 ELSE 1
  ELSE TimeOf(a) - TimeOf(b)

\* the comparator of the sort: pending before failed, then newest first
Compare(a, b) ==
  IF a.status # b.status
  THEN IF a.status = "pending" THEN -1 ELSE 1
  ELSE TimeOf(b) - TimeOf(a)

RECURSIVE InsertSorted(_, _)
\* x goes after every element that does not compare greater (Array.prototype.sort is stable)
InsertSorted(sorted, x) ==
  IF Len(sorted) = 0 THEN <<x>>
  ELSE IF Compare(Head(sorted), x) <= 0
       THEN <<Head(sorted)>> \o InsertSorted(Tail(sorted), x)
       ELSE <<x>> \o sorted

RECURSIVE SortTracks(_)
SortTracks(ts) ==
  IF Len(ts) = 0 THEN << >>
  ELSE InsertSorted(SortTracks(SubSeq(ts, 1, Len(ts) - 1)), ts[Len(ts)])

\* a queue filter that lets every item through
IsQueuedAll(track) == track.status \in Statuses

\* .filter((t) => t.status === "pending" || t.status === "failed")
IsQueued(track) == track.status = "pending" \/ track.status = "failed"

\* the ids of Object.values(manifest.tracks).filter(...).sort(...), in order
PendingQueue(m) ==
  LET sorted == SortTracks(SelectSeq(Values(m), IsQueued))
  IN [k \in 1..Len(sorted) |-> sorted[k].id]

\* Math.round(sizeMB * 10) / 10, kept in tenths of a megabyte
FileSizeMB(bytes) == (bytes * 20 + BytesPerMB) \div (2 * BytesPerMB)

\* ------------------------------------------------------------------- state

VARIABLES
  disk,                 \* the manifest file: the manifest of the last saveManifest
  manifest,             \* the manifest object of the running process
  outFiles,             \* the .wav file names in the output directory
  staging,              \* the ids with a file <id>.wav in STAGING_DIR
  pc,                   \* where the process is: idle, merged, loop, final, done
  engine,               \* the CLI in use: "legacy" (sync-favorites.ts) or "modular"
  apiTracks,            \* the listing the last merge was given
  usernameMap,          \* the id-to-label map the last merge was given
  newCount,             \* the newCount the last merge returned
  pending,              \* the download queue (ids, in order)
  idx,                  \* the number of queue items processed so far
  consecutiveFailures,
  batchSize,
  batchDownloaded,      \* staged items awaiting the copy to the output (ids)
  downloaded,           \* the downloaded counter of the run
  stopped,              \* the loop was left by the circuit breaker's break
  results,              \* per processed item, how its iteration went
  startManifest,        \* the manifest when the queue was built
  verifyResult,         \* what the last verify returned; listed: readdir succeeded
  runs,                 \* sync runs so far; the clock of lastAttempt
  verifies,             \* --verify runs so far
  userOps,              \* changes the user made to the output directory
  faults,               \* failures of the environment in the current run
  fileState,            \* what the manifest file holds: "ok", "missing", "garbled", "foreign"
  fetch,                \* the remote listing and the two enumerations of it
  cli,                  \* the --batch argument and the batch size computed from it
  strat,                \* the download strategies of one item and how far they got
  dl,                   \* one item's downloads: the requests, events and files in flight
  lastOp                \* the last operation performed

vars == <<disk, manifest, outFiles, staging, pc, engine, apiTracks, usernameMap,
          newCount, pending, idx, consecutiveFailures, batchSize, batchDownloaded,
          downloaded, stopped, results, startManifest, verifyResult,
          runs, verifies, userOps, faults, fileState, fetch, cli, strat, dl, lastOp>>

engineVars == <<pending, idx, consecutiveFailures, batchSize, batchDownloaded,
                downloaded, stopped, results, startManifest>>
mergeVars == <<apiTracks, usernameMap, newCount>>

Engines == {"legacy", "modular"}

\* the listings a fetch may return (an empty listing ends the run before merge)
RECURSIVE SeqsUpTo(_, _)
SeqsUpTo(S, n) ==
  IF n = 0 THEN {<< >>}
  ELSE LET shorter == SeqsUpTo(S, n - 1)
       IN shorter \cup {Append(q, x) : q \in {r \in shorter : Len(r) = n - 1}, x \in S}
Listings == SeqsUpTo(Gens, MaxListing) \ {<< >>}

\* the maps resolveUsernames may return
UsernameMaps == UNION {[A -> ArtistNames] : A \in SUBSET Authors}

\* file names a user may put into the output directory by hand
UserFiles == {UuidFilename(id) : id \in Ids}
             \cup {TitleFilename(a, TitleOf(id)) : a \in ArtistNames \cup {UnknownArtist}, id \in Ids}

\* ------------------------------------------------------ the remote listing

\* Math.min
Min(a, b) == IF a < b THEN a ELSE b

\* The listing the remote holds: record k carries its id (NoId: a record
\* without id) and its place k, which tells two records of one id apart.
RemoteOf(ids) == [k \in 1..Len(ids) |-> [id |-> ids[k], at |-> k]]
Remotes == {RemoteOf(ids) : ids \in SeqsUpTo(Ids \cup {NoId}, MaxRemote)}

\* the records the remote serves for the window of `limit` records after
\* the first `from`
Window(remote, from, limit) ==
  IF from >= Len(remote) THEN << >>
  ELSE SubSeq(remote, from + 1, Min(from + limit, Len(remote)))

\* API.favorites: ...favorites?limit=<limit>&page=<page>; the remote counts
\* pages of `limit` records
FavoritesWindow(remote, page, limit) == Window(remote, page * limit, limit)

\* API.published: ...generations?offset=<offset>&limit=<limit>
PublishedWindow(remote, offset, limit) == Window(remote, offset, limit)

\* The outcome of page.evaluate for request number n.  The request the
\* environment fails (failAt, 0 for none) gives ok: false (HTTP status not ok,
\* or fetch / resp.json raised) when failKind is "error", and a 200 with a
\* body that holds no list when failKind is "malformed".
Respond(f, n, shape, items) ==
  IF f.failAt = n
  THEN IF f.failKind = "error"
       THEN [ok |-> FALSE, data |-> [shape |-> "null", items |-> << >>]]
       ELSE [ok |-> TRUE, data |-> [shape |-> "other", items |-> << >>]]
  ELSE [ok |-> TRUE, data |-> [shape |-> shape, items |-> items]]

\* fetchAllFavorites: Array.isArray(result.data) ? result.data : []
ParseFavorites(data) == IF data.shape = "array" THEN data.items ELSE << >>

\* fetchAllPublished: raw = result.data?.generations ?? result.data;
\* Array.isArray(raw) ? raw : []
ParsePublished(data) ==
  IF data.shape \in {"wrapped", "array"} THEN data.items ELSE << >>

CollectAll(acc, gen) == [all |-> Append(acc.all, gen), seen |-> acc.seen \cup {gen.id}]

\* the body of the loop over a page: if (gen.id && !seenIds.has(gen.id))
\* { seenIds.add(gen.id); all.push(gen) }
CollectOne(acc, gen) ==
  IF gen.id # NoId /\ gen.id \notin acc.seen
  THEN [all |-> Append(acc.all, gen), seen |-> acc.seen \cup {gen.id}]
  ELSE acc

RECURSIVE Collect(_, _)
Collect(acc, gens) ==
  IF gens = << >> THEN acc ELSE Collect(CollectOne(acc, Head(gens)), Tail(gens))

NeverShort(gens, limit) == FALSE

\* if (generations.length < pageSize) break
IsShort(gens, limit) == Len(gens) < limit

\* pageNum++
NextPage(pageNum) == pageNum + 1

NextOffsetByOne(offset, limit) == offset + 1

\* offset += pageSize
NextOffset(offset, limit) == offset + limit

\* The end of a turn that goes on to the next page: await randomDelay(200, 500),
\* which the legacy program makes only if (!LYRICS_ONLY).  randomDelay waits
\* Math.floor(Math.random() * (max - min)) + min milliseconds, at least min.
PageDelay(e, lyricsOnly) == IF e = "legacy" THEN ~lyricsOnly ELSE TRUE

\* One enumeration: pos is pageNum or offset, reqs the <<pos, limit>> of
\* the requests sent, waits whether a delay was made after each turn that
\* went on to another request, end why the loop was left.
FetcherStart ==
  [pos |-> 0, all |-> << >>, seen |-> {}, reqs |-> << >>, waits |-> << >>,
   done |-> FALSE, end |-> "none"]

\* one turn of the while (true) loop after the request came back
FetchTurn(f, result, generations, limit, next, delay) ==
  LET sent == [f EXCEPT !.reqs = Append(f.reqs, <<f.pos, limit>>)]
  IN IF ~result.ok THEN [sent EXCEPT !.done = TRUE, !.end = "failed"]
     ELSE IF Len(generations) = 0 THEN [sent EXCEPT !.done = TRUE, !.end = "empty"]
     ELSE LET c == Collect([all |-> f.all, seen |-> f.seen], generations)
              got == [sent EXCEPT !.all = c.all, !.seen = c.seen]
          IN IF IsShort(generations, limit)
             THEN [got EXCEPT !.done = TRUE, !.end = "short"]
             ELSE [got EXCEPT !.pos = next, !.waits = Append(@, delay)]

FetchOf(remote, pageSize, shape, failAt, failKind) ==
  [remote |-> remote, pageSize |-> pageSize, shape |-> shape,
   failAt |-> failAt, failKind |-> failKind, lyricsOnly |-> FALSE,
   fav |-> FetcherStart, pub |-> FetcherStart]

\* no listing is being fetched
NoFetch == FetchOf(<< >>, 1, "wrapped", 0, "error")

\* ------------------------------------------------- the --batch argument

\* the characters an argument is written with
ArgChars == {"-", "+", " ", "0", "1", "2", "x"}

DigitValue(c) == IF c = "0" THEN 0 ELSE IF c = "1" THEN 1 ELSE 2
IsDigit(c) == c \in {"0", "1", "2"}

\* The value of CLI.batch: parseArgs gives the text after --batch, the
\* default "10" when the option is absent, and (strict: false) the boolean
\* true when the option stands without a value.
BatchArgs ==
  {[given |-> "text", text |-> t] : t \in SeqsUpTo(ArgChars, MaxArgLen)}
  \cup {[given |-> "default", text |-> <<"1", "0">>], [given |-> "flag", text |-> << >>]}

\* a number of JavaScript that is NaN or an integer
NaN == [nan |-> TRUE, val |-> 0]
Num(n) == [nan |-> FALSE, val |-> n]

\* the digits at the head of a text, read in radix 10 after the value acc
RECURSIVE ReadDigits(_, _)
ReadDigits(t, acc) ==
  IF t = << >> \/ ~IsDigit(Head(t)) THEN acc
  ELSE ReadDigits(Tail(t), 10 * acc + DigitValue(Head(t)))

\* parseInt(text, 10): leading white space is skipped, one sign is read, then
\* the digits up to the first other character; NaN when there is no digit
ParseInt(arg) ==
  IF arg.given = "flag" THEN NaN
  ELSE LET t == TrimLeft(arg.text)
           signed == t # << >> /\ Head(t) \in {"-", "+"}
           body == IF signed THEN Tail(t) ELSE t
       IN IF body = << >> \/ ~IsDigit(Head(body)) THEN NaN
          ELSE Num((IF signed /\ Head(t) = "-" THEN -1 ELSE 1) * ReadDigits(body, 0))

\* x || d: d when x is NaN or 0
OrDefault(x, d) == IF x.nan \/ x.val = 0 THEN d ELSE x.val

\* Math.max
Max(a, b) == IF a > b THEN a ELSE b

BatchSizeUnclamped(arg) == OrDefault(ParseInt(arg), DefaultBatch)

\* BATCH_SIZE = Math.max(1, parseInt(CLI.batch, 10) || 10)
BatchSizeOf(arg) == Max(1, OrDefault(ParseInt(arg), DefaultBatch))

\* no argument was read yet
NoCli == [arg |-> [given |-> "default", text |-> <<"1", "0">>], parsed |-> FALSE, size |-> 0]

\* --------------------------------------------- the strategies of one item

\* the decimal digits of a natural number
RECURSIVE Digits(_)
Digits(n) ==
  LET d == <<"0", "1", "2", "3", "4", "5", "6", "7", "8", "9">>
  IN IF n < 10 THEN <<d[n + 1]>> ELSE Append(Digits(n \div 10), d[(n % 10) + 1])

\* String.prototype.includes
Includes(text, part) ==
  \E k \in 1..(Len(text) - Len(part) + 1) : SubSeq(text, k, k + Len(part) - 1) = part

\* downloadWavViaBlob: error: `HTTP ${r.status}: ${text.slice(0, 200)}`
HttpError(status, text) ==
  <<"H", "T", "T", "P", " ">> \o Digits(status) \o <<":", " ">> \o text

\* downloadWavViaBlob: error: `Response too small (${blob.size} bytes)`
TooSmallError(size) ==
  <<"R", "e", "s", "p", "o", "n", "s", "e", " ", "t", "o", "o", " ",
    "s", "m", "a", "l", "l", " ", "(">>
  \o Digits(size) \o <<" ", "b", "y", "t", "e", "s", ")">>

\* downloadWavViaBlob: error: err.message of a fetch that raised in the page
FetchError == <<"F", "a", "i", "l", "e", "d", " ", "t", "o", " ", "f", "e", "t", "c", "h">>

\* the HTTP statuses of a failed download request
HttpStatuses == {401, 403, 404, 500}
\* the text of an error response
ErrorBodies == {<< >>, <<"i", "d", " ">> \o Digits(4031)}
\* sizes of a body below the 10000 bytes the direct strategy accepts
SmallSizes == {512, 4010}

\* How one call of downloadWavViaBlob ends: ok, a raised exception
\* (waitForEvent timed out), or { ok: false, error } with the kind of failure
\* (an HTTP status, an undersized body, a failed fetch) and its message.
DirectOutcomes ==
  {[kind |-> "ok", status |-> 200, error |-> << >>],
   [kind |-> "throw", status |-> 0, error |-> << >>],
   [kind |-> "error", status |-> 0, error |-> FetchError]}
  \cup {[kind |-> "error", status |-> st, error |-> HttpError(st, body)] :
          st \in HttpStatuses, body \in ErrorBodies}
  \cup {[kind |-> "error", status |-> 200, error |-> TooSmallError(sz)] : sz \in SmallSizes}

\* result.error?.includes("401") || result.error?.includes("403")
IsAuthError(error) == Includes(error, Digits(401)) \/ Includes(error, Digits(403))

\* The strategies of one item as the environment will answer them, and the
\* position in the try block: at, the calls made so far (trace), success.
StratOf(bearer, first, refresh, second, ui) ==
  [bearer |-> bearer, first |-> first, refresh |-> refresh, second |-> second, ui |-> ui,
   at |-> "start", trace |-> << >>, success |-> FALSE, threw |-> FALSE]

NoStrat == StratOf(FALSE, [kind |-> "ok", status |-> 200, error |-> << >>], "ok",
                   [kind |-> "ok", status |-> 200, error |-> << >>], "false")

\* ------------------------------------------- the downloads of one item

\* downloadWavViaBlob, in the page: if (blob.size < 10000)
DirectMinSize == 10000

\* the body sizes around the two thresholds
PayloadSizes == {MinFileSize - 1, MinFileSize, MinFileSize + 1}

\* The answer of the download endpoint: r.ok, whether the content type
\* includes audio or octet-stream, and blob.size.
Responses == [ok : BOOLEAN, audio : BOOLEAN, size : PayloadSizes]

\* what the interactive strategy will meet: no menu button (it returns
\* false) or a download of the given size
UiOutcomes == {0} \cup PayloadSizes

\* downloadWavViaBlob, the checks inside page.evaluate: the HTTP status, the
\* content type, the size of the blob
InPageCheck(resp) ==
  IF ~resp.ok THEN "http"
  ELSE IF ~resp.audio THEN "notaudio"
  ELSE IF resp.size < DirectMinSize THEN "small"
  ELSE "ok"

\* the engine's check of the staged file: stat.size > MIN_FILE_SIZE
StagedAccepts(size) == size > MinFileSize

\* One item: at is the statement the program is awaiting; net, downloads
\* and writes are what is in flight (network requests, browser downloads,
\* manifest writes); event is the browser's download event of the in-page
\* click, listening whether page.waitForEvent has been called, observed
\* whether the event reached that listener; staged is the size of the
\* saved file (0: none), success the variable of the loop.
DlOf(resp, ui) ==
  [resp |-> resp, ui |-> ui, at |-> "start", net |-> 0, downloads |-> {}, writes |-> 0,
   check |-> "none", event |-> "none", listening |-> FALSE, observed |-> FALSE,
   timedOut |-> FALSE, via |-> "none", staged |-> 0, success |-> FALSE,
   verdict |-> "none"]

NoDl == DlOf([ok |-> FALSE, audio |-> FALSE, size |-> MinFileSize], 0)

Init ==
  /\ disk = EmptyManifest
  /\ manifest = EmptyManifest
  /\ outFiles = {}
  /\ staging = {}
  /\ pc = "idle"
  /\ engine \in Engines
  /\ apiTracks = << >>
  /\ usernameMap = << >>
  /\ newCount = 0
  /\ pending = << >>
  /\ idx = 0
  /\ consecutiveFailures = 0
  /\ batchSize = 1
  /\ batchDownloaded = << >>
  /\ downloaded = 0
  /\ stopped = FALSE
  /\ results = << >>
  /\ startManifest = EmptyManifest
  /\ verifyResult = [missing |-> 0, verified |-> 0, listed |-> FALSE]
  /\ runs = 0
  /\ verifies = 0
  /\ userOps = 0
  /\ faults = 0
  /\ fileState = "missing"
  /\ fetch = NoFetch
  /\ cli = NoCli
  /\ strat = NoStrat
  /\ dl = NoDl
  /\ lastOp = "init"

\* ----------------------------------------------------- the manifest file

\* What the manifest file can hold: "ok" a manifest written by a completed
\* saveManifest; "missing" no file; "garbled" bytes that JSON.parse rejects
\* (a truncated file is one); "foreign" well-formed JSON that is not a
\* manifest, such as {} or null.
FileStates == {"ok", "missing", "garbled", "foreign"}

\* loadManifest: the parsed file, or a fresh manifest when readFile or
\* JSON.parse raises.  A foreign file parses, and the parsed value is returned
\* without a look at its shape: it has no tracks (see Usable).
loadManifest(file, state) == IF state = "ok" THEN file ELSE EmptyManifest

\* Object.keys(manifest.tracks), the first use of the loaded value in every
\* run, raises a TypeError on a value without tracks
Usable(state) == state # "foreign"

\* ------------------------------------------------------------- reconcile

\* syncFavorites / main, steps 1-6: load the manifest, fetch the listing,
\* resolve the usernames, merge, save
SyncMergeFrom(listings) ==
  /\ runs < MaxRuns
  /\ Usable(fileState)
  /\ \E gens \in listings, umap \in UsernameMaps :
       LET loaded == loadManifest(disk, fileState)
           r == mergeTracks(loaded, gens, umap, outFiles)
       IN /\ apiTracks' = gens
          /\ usernameMap' = umap
          /\ newCount' = r.newCount
          /\ manifest' = r.m
          /\ disk' = r.m
  /\ runs' = runs + 1
  /\ fileState' = "ok"
  /\ pc' = "merged"
  /\ lastOp' = "merge"
  /\ UNCHANGED <<outFiles, staging, engine, fetch, cli, strat, dl, engineVars, verifyResult, verifies, userOps, faults>>

\* the sync run on the listings of the model's remote
SyncMerge ==
  /\ pc = "idle"
  /\ SyncMergeFrom(Listings)

\* ---------------------------------------------------------------- verify

\* the --verify run of either CLI: load, verify, save when something is missing
Verify ==
  /\ pc = "idle"
  /\ verifies < MaxVerifies
  /\ Usable(fileState)
  /\ DOMAIN loadManifest(disk, fileState).tracks # {}
  /\ \E dirOk \in BOOLEAN :
       LET r == verifyDownloadedFiles(loadManifest(disk, fileState), outFiles, dirOk,
                  IF engine = "legacy" THEN VerifyMsgLegacy ELSE VerifyMsgModular)
       IN /\ manifest' = r.m
          /\ disk' = IF r.missing > 0 THEN r.m ELSE disk
          /\ fileState' = IF r.missing > 0 THEN "ok" ELSE fileState
          /\ verifyResult' = [missing |-> r.missing, verified |-> r.verified,
                              listed |-> dirOk]
  /\ verifies' = verifies + 1
  /\ pc' = "done"
  /\ lastOp' = "verify"
  /\ UNCHANGED <<outFiles, staging, engine, fetch, cli, strat, dl, engineVars, mergeVars, runs, userOps, faults>>

\* ------------------------------------------------------- the environment

\* the user deletes a file of the output directory between two runs
UserDeletesFile ==
  /\ pc = "idle"
  /\ userOps < MaxUserOps
  /\ \E f \in outFiles : outFiles' = outFiles \ {f}
  /\ userOps' = userOps + 1
  /\ lastOp' = "user"
  /\ UNCHANGED <<disk, manifest, staging, pc, engine, fetch, cli, strat, dl, engineVars, mergeVars,
                 verifyResult, runs, verifies, faults, fileState>>

\* the user puts a file into the output directory between two runs
UserAddsFile ==
  /\ pc = "idle"
  /\ userOps < MaxUserOps
  /\ \E f \in UserFiles \ outFiles : outFiles' = outFiles \cup {f}
  /\ userOps' = userOps + 1
  /\ lastOp' = "user"
  /\ UNCHANGED <<disk, manifest, staging, pc, engine, fetch, cli, strat, dl, engineVars, mergeVars,
                 verifyResult, runs, verifies, faults, fileState>>

\* ------------------------------------------------- the acquisition engines

TooSmallMsg == "File too small"
BothFailedMsg == "Both blob and UI download failed"
CopyFailedMsg == "Copy to output failed"
\* the message of an exception caught by the catch of the item loop
ExceptionMsg == "exception"

\* the sizes of a file a download strategy saves
FileSizes == {MinFileSize, MinFileSize + 1}

\* How the strategies of one item end: kind "ok" (success is true and the file
\* exists with the given size), "fail" (success is false) or "throw" (a
\* strategy raised out of the try, as downloadViaUI does on a timeout).
Attempts == {[kind |-> "fail", size |-> 0], [kind |-> "throw", size |-> 0]}
            \cup {[kind |-> "ok", size |-> sz] : sz \in FileSizes}

\* const MAX_CONSECUTIVE_FAILURES
MaxConsecutiveFailures(e) == IF e = "legacy" THEN MaxFailLegacy ELSE MaxFailModular

\* The working state of one loop iteration: the manifest, the output
\* directory, the staging directory, the counters and the batch.
IterState ==
  [m |-> manifest, out |-> outFiles, stg |-> staging, cf |-> consecutiveFailures,
   batch |-> batchDownloaded, downloaded |-> downloaded, thrown |-> FALSE]

\* track.lastAttempt = new Date().toISOString()
StampAttempt(st, id) == [st EXCEPT !.m.tracks[id].lastAttempt = runs]

\* the two failure branches of the classification
MarkFailed(st, id, msg) ==
  [st EXCEPT !.m.tracks[id].status = "failed",
             !.m.tracks[id].error = msg,
             !.cf = @ + 1]

\* a classification that accepts a saved file of any size
ClassifyAnySize(st, id, att) ==
  IF att.kind = "ok"
  THEN [st EXCEPT !.m.tracks[id].fileSizeMB = FileSizeMB(att.size),
                  !.cf = 0,
                  !.stg = @ \cup {id},
                  !.batch = Append(@, id)]
  ELSE MarkFailed(st, id, BothFailedMsg)

\* a classification that does not queue the accepted item for the copy
ClassifyUnbatched(st, id, att) ==
  IF att.kind = "ok"
  THEN IF att.size > MinFileSize
       THEN [st EXCEPT !.m.tracks[id].fileSizeMB = FileSizeMB(att.size),
                       !.cf = 0,
                       !.stg = @ \cup {id}]
       ELSE [MarkFailed(st, id, TooSmallMsg) EXCEPT !.stg = @ \ {id}]
  ELSE MarkFailed(st, id, BothFailedMsg)

\* downloadPendingTracks, the classification of one attempt (success/size)
ClassifyModular(st, id, att) ==
  IF att.kind = "ok"
  THEN IF att.size > MinFileSize
       THEN [st EXCEPT !.m.tracks[id].fileSizeMB = FileSizeMB(att.size),
                       !.cf = 0,
                       !.stg = @ \cup {id},
                       !.batch = Append(@, id)]
       ELSE [MarkFailed(st, id, TooSmallMsg) EXCEPT !.stg = @ \ {id}]
  ELSE MarkFailed(st, id, BothFailedMsg)

\* downloadPendingFavorites, the classification of one attempt
ClassifyLegacy(st, id, att) ==
  IF att.kind = "ok"
  THEN IF att.size > MinFileSize
       THEN [st EXCEPT !.m.tracks[id].status = "downloaded",
                       !.m.tracks[id].fileSizeMB = FileSizeMB(att.size),
                       !.m.tracks[id].driveFilename = UuidFilename(id),
                       !.m.tracks[id].error = NoError,
                       !.downloaded = @ + 1,
                       !.cf = 0,
                       !.out = @ \cup {UuidFilename(id)}]
       ELSE [MarkFailed(st, id, TooSmallMsg) EXCEPT !.out = @ \ {UuidFilename(id)}]
  ELSE MarkFailed(st, id, BothFailedMsg)

\* the catch of the item loop: the current item is marked failed
CatchItem(st, id) ==
  [st EXCEPT !.m.tracks[id].status = "failed",
             !.m.tracks[id].error = ExceptionMsg,
             !.cf = @ + 1,
             !.thrown = FALSE]

RECURSIVE PromoteLoop(_, _, _, _)
\* The for loop that copies the batch to the output.  copyFail: the items
\* whose copyFile fails; unlinkFail: the items whose unlink raises.  copyFile
\* also fails when the staged file is gone.  A raising unlink leaves the loop.
PromoteLoop(st, items, copyFail, unlinkFail) ==
  IF Len(items) = 0 THEN st
  ELSE LET id == Head(items)
           ok == id \in st.stg /\ id \notin copyFail
           copied == [st EXCEPT !.m.tracks[id].status = "downloaded",
                                !.m.tracks[id].driveFilename = UuidFilename(id),
                                !.m.tracks[id].error = NoError,
                                !.out = @ \cup {UuidFilename(id)}]
       IN IF ok
          THEN IF id \in unlinkFail
               THEN [copied EXCEPT !.thrown = TRUE]
               ELSE PromoteLoop([copied EXCEPT !.stg = @ \ {id}, !.downloaded = @ + 1],
                                Tail(items), copyFail, unlinkFail)
          ELSE PromoteLoop([st EXCEPT !.m.tracks[id].status = "failed",
                                      !.m.tracks[id].error = CopyFailedMsg],
                           Tail(items), copyFail, unlinkFail)

\* the ways the file operations of one batch copy may fail
SeqRange(q) == {q[k] : k \in 1..Len(q)}
FaultPlans(items) ==
  {p \in [copyFail : SUBSET SeqRange(items),
          unlinkFail : {{}} \cup {{x} : x \in SeqRange(items)}] :
     p.unlinkFail \cap p.copyFail = {}}

NoPlan == [copyFail |-> {}, unlinkFail |-> {}]

\* the number of failures of the environment in one iteration
PlanCost(att, plan) ==
  (IF att.kind = "throw" THEN 1 ELSE 0)
  + Cardinality(plan.copyFail) + Cardinality(plan.unlinkFail)

\* the batch copy inside the loop (the batch is emptied unless unlink raised)
PromoteBatch(st, plan) ==
  LET r == PromoteLoop(st, st.batch, plan.copyFail, plan.unlinkFail)
  IN IF r.thrown THEN r ELSE [r EXCEPT !.batch = << >>]

\* the --batch values: BATCH_SIZE = Math.max(1, parseInt(CLI.batch, 10) || 10)
BatchSizes == 1..MaxBatch

\* The start of downloadPendingTracks / downloadPendingFavorites: the queue is
\* built; with an empty queue the function returns at once.
StartEngine ==
  /\ pc = "merged"
  /\ pending' = PendingQueue(manifest)
  /\ pc' = IF Len(pending') = 0 THEN "done" ELSE "loop"
  /\ \E b \in BatchSizes :
       batchSize' = IF engine = "modular" THEN b ELSE 1
  /\ idx' = 0
  /\ consecutiveFailures' = 0
  /\ batchDownloaded' = << >>
  /\ downloaded' = 0
  /\ stopped' = FALSE
  /\ results' = << >>
  /\ startManifest' = manifest
  /\ apiTracks' = << >>
  /\ usernameMap' = << >>
  /\ newCount' = 0
  /\ faults' = 0
  /\ lastOp' = "start"
  /\ UNCHANGED <<disk, manifest, outFiles, staging, engine, fetch, cli, strat, dl, verifyResult, runs, verifies,
                 userOps, fileState>>

\* One iteration of the for loop of downloadPendingTracks on item id: the
\* working state it ends with, whether it left the loop by break, and how
\* the item went (ok: the download was accepted; threw: the catch ran).
ModularIterationFrom(st, bsize, id, att, plan) ==
  LET st0 == StampAttempt(st, id)
      limit == MaxConsecutiveFailures("modular")
  IN IF att.kind = "throw"
     THEN LET st1 == CatchItem(st0, id)
          IN [st |-> st1, broke |-> st1.cf >= limit, ok |-> FALSE, threw |-> TRUE]
     ELSE LET st1 == ClassifyModular(st0, id, att)
              ok == att.kind = "ok" /\ att.size > MinFileSize
          IN IF st1.cf >= limit
             THEN [st |-> st1, broke |-> TRUE, ok |-> ok, threw |-> FALSE]
             ELSE IF Len(st1.batch) >= bsize
                  THEN LET st2 == PromoteBatch(st1, plan)
                       IN IF st2.thrown
                          THEN LET st3 == CatchItem(st2, id)
                               IN [st |-> st3, broke |-> st3.cf >= limit,
                                   ok |-> ok, threw |-> TRUE]
                          ELSE [st |-> st2, broke |-> FALSE, ok |-> ok, threw |-> FALSE]
                  ELSE [st |-> st1, broke |-> FALSE, ok |-> ok, threw |-> FALSE]

\* the iteration on the variables of the run
ModularIteration(id, att, plan) == ModularIterationFrom(IterState, batchSize, id, att, plan)

\* the plans that matter to an iteration: none unless the batch is copied
PlansFor(id, att) ==
  LET st1 == ClassifyModular(StampAttempt(IterState, id), id, att)
  IN IF att.kind # "throw" /\ st1.cf < MaxConsecutiveFailures("modular")
        /\ Len(st1.batch) >= batchSize
     THEN FaultPlans(st1.batch)
     ELSE {NoPlan}

\* One iteration of the for loop of downloadPendingFavorites on item id.
LegacyIterationFrom(st, id, att) ==
  LET st0 == StampAttempt(st, id)
      limit == MaxConsecutiveFailures("legacy")
  IN IF att.kind = "throw"
     THEN LET st1 == CatchItem(st0, id)
          IN [st |-> st1, broke |-> st1.cf >= limit, ok |-> FALSE, threw |-> TRUE]
     ELSE LET st1 == ClassifyLegacy(st0, id, att)
          IN [st |-> st1, broke |-> st1.cf >= limit,
              ok |-> att.kind = "ok" /\ att.size > MinFileSize, threw |-> FALSE]

\* the iteration on the variables of the run
LegacyIteration(id, att) == LegacyIterationFrom(IterState, id, att)

\* One whole run of an engine from working state st on the queue, item k
\* ending as outs[k] says and no file operation of a batch copy failing: the
\* items attempted and the manifest the run leaves (for the modular engine
\* after its final batch).
RECURSIVE RunLoop(_, _, _, _, _, _, _)
RunLoop(e, st, bsize, queue, outs, k, attempted) ==
  IF k > Len(queue) THEN [st |-> st, attempted |-> attempted]
  ELSE LET r == IF e = "modular"
                THEN ModularIterationFrom(st, bsize, queue[k], outs[k], NoPlan)
                ELSE LegacyIterationFrom(st, queue[k], outs[k])
           done == Append(attempted, queue[k])
       IN IF r.broke THEN [st |-> r.st, attempted |-> done]
          ELSE RunLoop(e, r.st, bsize, queue, outs, k + 1, done)

RunEngine(e, st, bsize, queue, outs) ==
  LET r == RunLoop(e, st, bsize, queue, outs, 1, << >>)
  IN [attempted |-> r.attempted,
      m |-> IF e = "modular" THEN PromoteLoop(r.st, r.st.batch, {}, {}).m ELSE r.st.m]

\* await randomDelay(300, 800): the last statement of the try of the loop.
\* It is reached when the iteration neither raised into the catch nor left
\* the loop by break; the catch has no delay.
Delayed(r) == ~r.threw /\ ~r.broke

\* an iteration whose catch does not save the manifest
ApplyIterationUnsaved(id, r, nextPc, cost) ==
  /\ faults + cost <= MaxFaults
  /\ faults' = faults + cost
  /\ manifest' = r.st.m
  /\ disk' = IF r.threw THEN disk ELSE r.st.m
  /\ fileState' = "ok"
  /\ outFiles' = r.st.out
  /\ staging' = r.st.stg
  /\ consecutiveFailures' = r.st.cf
  /\ batchDownloaded' = r.st.batch
  /\ downloaded' = r.st.downloaded
  /\ stopped' = r.broke
  /\ results' = Append(results, [id |-> id, ok |-> r.ok, threw |-> r.threw,
                                 delayed |-> Delayed(r)])
  /\ idx' = idx + 1
  /\ pc' = IF r.broke \/ idx + 1 = Len(pending) THEN nextPc ELSE "loop"
  /\ lastOp' = "item"
  /\ UNCHANGED <<engine, fetch, cli, strat, dl, pending, batchSize, startManifest, mergeVars, verifyResult,
                 runs, verifies, userOps>>

\* an iteration that leaves the loop at the first item that was not accepted
ApplyIterationStopping(id, r, nextPc, cost) ==
  /\ faults + cost <= MaxFaults
  /\ faults' = faults + cost
  /\ manifest' = r.st.m
  /\ disk' = r.st.m
  /\ fileState' = "ok"
  /\ outFiles' = r.st.out
  /\ staging' = r.st.stg
  /\ consecutiveFailures' = r.st.cf
  /\ batchDownloaded' = r.st.batch
  /\ downloaded' = r.st.downloaded
  /\ stopped' = r.broke
  /\ results' = Append(results, [id |-> id, ok |-> r.ok, threw |-> r.threw,
                                 delayed |-> Delayed(r)])
  /\ idx' = idx + 1
  /\ pc' = IF r.broke \/ ~r.ok \/ idx + 1 = Len(pending) THEN nextPc ELSE "loop"
  /\ lastOp' = "item"
  /\ UNCHANGED <<engine, fetch, cli, strat, dl, pending, batchSize, startManifest, mergeVars, verifyResult,
                 runs, verifies, userOps>>

\* what an iteration leaves in the variables; every path of an iteration
\* ends after a saveManifest, so the manifest file holds the manifest
ApplyIteration(id, r, nextPc, cost) ==
  /\ faults + cost <= MaxFaults
  /\ faults' = faults + cost
  /\ manifest' = r.st.m
  /\ disk' = r.st.m
  /\ fileState' = "ok"
  /\ outFiles' = r.st.out
  /\ staging' = r.st.stg
  /\ consecutiveFailures' = r.st.cf
  /\ batchDownloaded' = r.st.batch
  /\ downloaded' = r.st.downloaded
  /\ stopped' = r.broke
  /\ results' = Append(results, [id |-> id, ok |-> r.ok, threw |-> r.threw,
                                 delayed |-> Delayed(r)])
  /\ idx' = idx + 1
  /\ pc' = IF r.broke \/ idx + 1 = Len(pending) THEN nextPc ELSE "loop"
  /\ lastOp' = "item"
  /\ UNCHANGED <<engine, fetch, cli, strat, dl, pending, batchSize, startManifest, mergeVars, verifyResult,
                 runs, verifies, userOps>>

ModularItem ==
  /\ pc = "loop"
  /\ engine = "modular"
  /\ idx < Len(pending)
  /\ \E att \in Attempts :
       \E plan \in PlansFor(pending[idx + 1], att) :
         ApplyIteration(pending[idx + 1],
                        ModularIteration(pending[idx + 1], att, plan), "final",
                        PlanCost(att, plan))

LegacyItem ==
  /\ pc = "loop"
  /\ engine = "legacy"
  /\ idx < Len(pending)
  /\ \E att \in Attempts :
       ApplyIteration(pending[idx + 1], LegacyIteration(pending[idx + 1], att), "done",
                      PlanCost(att, NoPlan))

\* The final batch of downloadPendingTracks, after the loop.  It is outside
\* the try of the loop: a raising unlink rejects the call, main logs the
\* fatal error and the process ends without another save.
ModularFinish ==
  /\ pc = "final"
  /\ \E plan \in (IF Len(batchDownloaded) > 0 THEN FaultPlans(batchDownloaded) ELSE {NoPlan}) :
       LET r == PromoteLoop(IterState, batchDownloaded, plan.copyFail, plan.unlinkFail)
       IN /\ faults + PlanCost([kind |-> "ok"], plan) <= MaxFaults
          /\ faults' = faults + PlanCost([kind |-> "ok"], plan)
          /\ outFiles' = r.out
          /\ staging' = r.stg
          /\ manifest' = r.m
          /\ downloaded' = r.downloaded
          /\ disk' = IF r.thrown \/ Len(batchDownloaded) = 0 THEN disk ELSE r.m
          /\ fileState' = IF r.thrown \/ Len(batchDownloaded) = 0 THEN fileState ELSE "ok"
          /\ lastOp' = IF r.thrown THEN "abort" ELSE "return"
  /\ pc' = "done"
  /\ UNCHANGED <<engine, fetch, cli, strat, dl, pending, idx, consecutiveFailures, batchSize, batchDownloaded,
                 stopped, results, startManifest, mergeVars, verifyResult, runs, verifies,
                 userOps>>

\* The process ends: its manifest object and its locals are gone; the next
\* run starts from the manifest file.
Exit ==
  /\ pc = "done"
  /\ pc' = "idle"
  /\ manifest' = loadManifest(disk, fileState)
  /\ pending' = << >>
  /\ idx' = 0
  /\ consecutiveFailures' = 0
  /\ batchSize' = 1
  /\ batchDownloaded' = << >>
  /\ downloaded' = 0
  /\ stopped' = FALSE
  /\ results' = << >>
  /\ startManifest' = EmptyManifest
  /\ verifyResult' = [missing |-> 0, verified |-> 0, listed |-> FALSE]
  /\ lastOp' = "exit"
  /\ UNCHANGED <<disk, outFiles, staging, engine, fetch, cli, strat, dl, mergeVars, runs, verifies, userOps,
                 faults, fileState>>

Next ==
  \/ SyncMerge
  \/ StartEngine
  \/ ModularItem
  \/ LegacyItem
  \/ ModularFinish
  \/ Verify
  \/ UserDeletesFile
  \/ UserAddsFile
  \/ Exit

Spec == Init /\ [][Next]_vars

\* ------------------------------------------------ a restart on a full manifest

\* The manifest a restart finds after earlier runs on QueueLen remote items:
\* the first nDone items were acquired, the next nFailed items failed, the
\* rest is still pending.
RestartIds == [n \in 1..QueueLen |-> IdNames[n]]

RestartTrack(n, nDone, nFailed) ==
  LET fresh == NewTrack(Gen(IdNames[n]), UnknownArtist, {})
  IN IF n <= nDone
     THEN [fresh EXCEPT !.status = "downloaded",
                        !.driveFilename = UuidFilename(IdNames[n]),
                        !.fileSizeMB = FileSizeMB(MinFileSize + 1),
                        !.lastAttempt = 1]
     ELSE IF n <= nDone + nFailed
          THEN [fresh EXCEPT !.status = "failed", !.error = BothFailedMsg,
                             !.lastAttempt = 1]
          ELSE fresh

RestartManifest(nDone, nFailed) ==
  [keys |-> RestartIds,
   tracks |-> [id \in SeqRange(RestartIds) |-> RestartTrack(IdIndex(id), nDone, nFailed)]]

InitRestart ==
  /\ \E nDone \in 0..1, nFailed \in 0..QueueLen :
       /\ nDone + nFailed <= QueueLen
       /\ disk = RestartManifest(nDone, nFailed)
       /\ outFiles = {UuidFilename(IdNames[n]) : n \in 1..nDone}
  /\ manifest = disk
  /\ staging = {}
  /\ pc = "merged"
  /\ engine \in Engines
  /\ apiTracks = << >>
  /\ usernameMap = << >>
  /\ newCount = 0
  /\ pending = << >>
  /\ idx = 0
  /\ consecutiveFailures = 0
  /\ batchSize = 1
  /\ batchDownloaded = << >>
  /\ downloaded = 0
  /\ stopped = FALSE
  /\ results = << >>
  /\ startManifest = EmptyManifest
  /\ verifyResult = [missing |-> 0, verified |-> 0, listed |-> FALSE]
  /\ runs = 2
  /\ verifies = 0
  /\ userOps = 0
  /\ faults = 0
  /\ fileState = "ok"
  /\ fetch = NoFetch
  /\ cli = NoCli
  /\ strat = NoStrat
  /\ dl = NoDl
  /\ lastOp = "merge"

NextRestart ==
  \/ StartEngine
  \/ ModularItem
  \/ LegacyItem
  \/ ModularFinish
  \/ Exit

SpecRestart == InitRestart /\ [][NextRestart]_vars

\* The run goes on: every await of an iteration ends (the strategies have
\* timeouts), the loop takes its next item and the final batch follows it.
SpecRestartLive ==
  /\ SpecRestart
  /\ WF_vars(ModularItem)
  /\ WF_vars(LegacyItem)
  /\ WF_vars(ModularFinish)

\* ------------------------------------- a sync run on a pre-populated archive

\* The manifests a sync run may load when the archive was filled by hand: no
\* manifest yet, or a manifest that holds the first item as an earlier run
\* left it (pending, failed or acquired).
SeedManifests ==
  {EmptyManifest}
  \cup {[keys |-> <<IdNames[1]>>,
         tracks |-> [id \in {IdNames[1]} |-> RestartTrack(1, nDone, nFailed)]] :
          nDone \in 0..1, nFailed \in 0..1}

InitMerge ==
  /\ disk \in SeedManifests
  /\ manifest = disk
  /\ outFiles \in SUBSET UserFiles
  /\ staging = {}
  /\ pc = "idle"
  /\ engine \in Engines
  /\ apiTracks = << >>
  /\ usernameMap = << >>
  /\ newCount = 0
  /\ pending = << >>
  /\ idx = 0
  /\ consecutiveFailures = 0
  /\ batchSize = 1
  /\ batchDownloaded = << >>
  /\ downloaded = 0
  /\ stopped = FALSE
  /\ results = << >>
  /\ startManifest = EmptyManifest
  /\ verifyResult = [missing |-> 0, verified |-> 0, listed |-> FALSE]
  /\ runs = 0
  /\ verifies = 0
  /\ userOps = 0
  /\ faults = 0
  /\ fileState = "ok"
  /\ fetch = NoFetch
  /\ cli = NoCli
  /\ strat = NoStrat
  /\ dl = NoDl
  /\ lastOp = "init"

NextMerge == SyncMerge

SpecMerge == InitMerge /\ [][NextMerge]_vars

\* ------------------------------------------------------ an empty listing

\* a sync run that goes on to the merge and the save with the empty listing
SyncEmptyListingMerging ==
  /\ pc = "idle"
  /\ runs < MaxRuns
  /\ Usable(fileState)
  /\ LET r == mergeTracks(loadManifest(disk, fileState), << >>, << >>, outFiles)
     IN /\ manifest' = r.m
        /\ disk' = r.m
        /\ newCount' = r.newCount
  /\ apiTracks' = << >>
  /\ usernameMap' = << >>
  /\ runs' = runs + 1
  /\ fileState' = "ok"
  /\ pc' = "merged"
  /\ lastOp' = "merge"
  /\ UNCHANGED <<outFiles, staging, engine, fetch, cli, strat, dl, engineVars, verifyResult, verifies, userOps, faults>>

\* syncFavorites / main up to the test of apiTracks.length: the manifest is
\* loaded, fetchAllFavorites / fetchAllPublished returns no item (the remote
\* has none, or the first page request failed and the loop broke with an
\* empty result), the browser is closed and the run returns
SyncEmptyListing ==
  /\ pc = "idle"
  /\ runs < MaxRuns
  /\ Usable(fileState)
  /\ manifest' = loadManifest(disk, fileState)
  /\ apiTracks' = << >>
  /\ runs' = runs + 1
  /\ pc' = "done"
  /\ \E cause \in {"empty", "nopage"} : lastOp' = cause
  /\ UNCHANGED <<disk, fileState, usernameMap, newCount, outFiles, staging, engine, fetch, cli, strat, dl,
                 engineVars, verifyResult, verifies, userOps, faults>>

NextEmpty ==
  \/ SyncMerge
  \/ SyncEmptyListing
  \/ StartEngine
  \/ ModularItem
  \/ LegacyItem
  \/ ModularFinish
  \/ Exit

SpecEmpty == Init /\ [][NextEmpty]_vars

\* ------------------------------------------ two items with the same label

\* two remote items of one author that carry the same title
TwinIds == {IdNames[1], IdNames[3]}
TwinListings == SeqsUpTo({Gen(id) : id \in TwinIds}, MaxListing) \ {<< >>}

\* a sync run whose listing holds the twins
SyncMergeTwins ==
  /\ pc = "idle"
  /\ SyncMergeFrom(TwinListings)

NextTwins == SyncMergeTwins

SpecTwins == InitMerge /\ [][NextTwins]_vars

\* ------------------------------------------- runs on a damaged manifest file

\* saveManifest writes with writeFile straight onto the manifest path: the
\* file is truncated, then filled.  A process that is killed (or a disk that
\* fills) during the save a step ends with leaves a prefix of the new text,
\* which JSON.parse rejects.  Every merge and every loop iteration ends
\* with a save.
InterruptedSave ==
  /\ pc # "idle"
  /\ lastOp \in {"merge", "item"}
  /\ fileState' = "garbled"
  /\ pc' = "done"
  /\ lastOp' = "crash"
  /\ UNCHANGED <<disk, manifest, outFiles, staging, engine, fetch, cli, strat, dl, engineVars, mergeVars,
                 verifyResult, runs, verifies, userOps, faults>>

\* between two runs the manifest file is deleted, damaged, or replaced by
\* well-formed JSON of another shape
ManifestFileReplaced ==
  /\ pc = "idle"
  /\ userOps < MaxUserOps
  /\ fileState' \in FileStates \ {"ok"}
  /\ userOps' = userOps + 1
  /\ lastOp' = "user"
  /\ UNCHANGED <<disk, manifest, outFiles, staging, pc, engine, fetch, cli, strat, dl, engineVars, mergeVars,
                 verifyResult, runs, verifies, faults>>

\* A run on a foreign manifest file: loadManifest returns the parsed value,
\* Object.keys(manifest.tracks) raises, main's catch logs the fatal error
\* and the process exits with code 1; nothing was fetched, merged or saved.
SyncFatal ==
  /\ pc = "idle"
  /\ runs < MaxRuns
  /\ ~Usable(fileState)
  /\ runs' = runs + 1
  /\ pc' = "done"
  /\ lastOp' = "fatal"
  /\ UNCHANGED <<disk, manifest, outFiles, staging, engine, fetch, cli, strat, dl, engineVars, mergeVars,
                 verifyResult, verifies, userOps, faults, fileState>>

NextCrash ==
  \/ SyncMerge
  \/ SyncFatal
  \/ StartEngine
  \/ ModularItem
  \/ LegacyItem
  \/ ModularFinish
  \/ Exit
  \/ InterruptedSave
  \/ ManifestFileReplaced

SpecCrash == Init /\ [][NextCrash]_vars

\* ------------------------------------- runs that end before the acquisition

\* why main ends before it loads the manifest: extractAuth raised (no
\* credential), or verifyAuth returned false (the probe of the listing failed)
AuthFailures == {"nocredential", "probe"}

\* Steps 2 and 3 of main fail: the diagnostic is logged, the browser is
\* closed and process.exit(1) ends the run before loadManifest.
SyncAuthFails ==
  /\ pc = "idle"
  /\ runs < MaxRuns
  /\ \E cause \in AuthFailures : lastOp' = "authfail"
  /\ runs' = runs + 1
  /\ pc' = "done"
  /\ UNCHANGED <<disk, manifest, outFiles, staging, engine, fetch, cli, strat, dl, engineVars, mergeVars,
                 verifyResult, verifies, userOps, faults, fileState>>

DryRunStarting ==
  /\ pc = "merged"
  /\ pending' = PendingQueue(manifest)
  /\ pc' = IF Len(pending') = 0 THEN "done" ELSE "loop"
  /\ lastOp' = "dryrun"
  /\ UNCHANGED <<disk, manifest, outFiles, staging, engine, fetch, cli, strat, dl, idx, consecutiveFailures,
                 batchSize, batchDownloaded, downloaded, stopped, results, startManifest,
                 mergeVars, verifyResult, runs, verifies, userOps, faults, fileState>>

\* if (DRY_RUN): after the merge and its save the queue is printed, the
\* browser is closed and main returns
DryRun ==
  /\ pc = "merged"
  /\ pc' = "done"
  /\ lastOp' = "dryrun"
  /\ UNCHANGED <<disk, manifest, outFiles, staging, engine, fetch, cli, strat, dl, engineVars, mergeVars,
                 verifyResult, runs, verifies, userOps, faults, fileState>>

ExitStatusZero(op) == 0

\* the exit status of a process that ended with lastOp = op: process.exit(1)
\* after a failed authentication and in main().catch, 0 when main returns
ExitStatus(op) == IF op \in {"authfail", "fatal", "abort"} THEN 1 ELSE 0

NextCli ==
  \/ SyncAuthFails
  \/ SyncMerge
  \/ DryRun
  \/ StartEngine
  \/ ModularItem
  \/ LegacyItem
  \/ ModularFinish
  \/ UserAddsFile
  \/ Exit

SpecCli == Init /\ [][NextCli]_vars

\* --------------------------------------------------- fetching the listing

syncVars == <<disk, manifest, outFiles, staging, pc, engine, apiTracks, usernameMap,
              newCount, pending, idx, consecutiveFailures, batchSize, batchDownloaded,
              downloaded, stopped, results, startManifest, verifyResult,
              runs, verifies, userOps, faults, fileState, lastOp>>

\* The listings, page sizes and failures of one fetch.  The favorites
\* endpoint answers with a list, the published endpoint with a list or with
\* a list wrapped in { generations }.
InitFetch ==
  /\ disk = EmptyManifest
  /\ manifest = EmptyManifest
  /\ outFiles = {}
  /\ staging = {}
  /\ pc = "idle"
  /\ engine = "modular"
  /\ apiTracks = << >>
  /\ usernameMap = << >>
  /\ newCount = 0
  /\ pending = << >>
  /\ idx = 0
  /\ consecutiveFailures = 0
  /\ batchSize = 1
  /\ batchDownloaded = << >>
  /\ downloaded = 0
  /\ stopped = FALSE
  /\ results = << >>
  /\ startManifest = EmptyManifest
  /\ verifyResult = [missing |-> 0, verified |-> 0, listed |-> FALSE]
  /\ runs = 0
  /\ verifies = 0
  /\ userOps = 0
  /\ faults = 0
  /\ fileState = "missing"
  /\ lastOp = "init"
  /\ cli = NoCli
  /\ strat = NoStrat
  /\ dl = NoDl
  /\ \E remote \in Remotes, pageSize \in 1..MaxPageSize, shape \in {"array", "wrapped"},
        failAt \in 0..MaxFailAt, failKind \in {"error", "malformed"} :
       /\ failAt = 0 => failKind = "error"
       /\ fetch = FetchOf(remote, pageSize, shape, failAt, failKind)

\* one turn of the loop of fetchAllFavorites
FetchFavoritesPage ==
  /\ ~fetch.fav.done
  /\ LET f == fetch.fav
         items == FavoritesWindow(fetch.remote, f.pos, fetch.pageSize)
         result == Respond(fetch, Len(f.reqs) + 1, "array", items)
         generations == IF result.ok THEN ParseFavorites(result.data) ELSE << >>
     IN fetch' = [fetch EXCEPT !.fav = FetchTurn(f, result, generations, fetch.pageSize,
                                                 NextPage(f.pos),
                                                 PageDelay(engine, fetch.lyricsOnly))]
  /\ UNCHANGED <<syncVars, cli, strat, dl>>

\* one turn of the loop of fetchAllPublished
FetchPublishedPage ==
  /\ ~fetch.pub.done
  /\ LET f == fetch.pub
         items == PublishedWindow(fetch.remote, f.pos, fetch.pageSize)
         result == Respond(fetch, Len(f.reqs) + 1, fetch.shape, items)
         generations == IF result.ok THEN ParsePublished(result.data) ELSE << >>
     IN fetch' = [fetch EXCEPT !.pub = FetchTurn(f, result, generations, fetch.pageSize,
                                                 NextOffset(f.pos, fetch.pageSize),
                                                 PageDelay(engine, fetch.lyricsOnly))]
  /\ UNCHANGED <<syncVars, cli, strat, dl>>

NextFetch ==
  \/ FetchFavoritesPage
  \/ FetchPublishedPage

SpecFetch == InitFetch /\ [][NextFetch]_vars

\* each loop runs on: a request that was sent comes back (the fetch settles)
SpecFetchLive ==
  SpecFetch /\ WF_vars(FetchFavoritesPage) /\ WF_vars(FetchPublishedPage)

\* The fetch of either program in each of its modes: the modular program,
\* and the legacy program without and with --lyrics-only
\* (LYRICS_ONLY = !!CLI["lyrics-only"]).
InitFetchModes ==
  /\ disk = EmptyManifest
  /\ manifest = EmptyManifest
  /\ outFiles = {}
  /\ staging = {}
  /\ pc = "idle"
  /\ engine \in Engines
  /\ apiTracks = << >>
  /\ usernameMap = << >>
  /\ newCount = 0
  /\ pending = << >>
  /\ idx = 0
  /\ consecutiveFailures = 0
  /\ batchSize = 1
  /\ batchDownloaded = << >>
  /\ downloaded = 0
  /\ stopped = FALSE
  /\ results = << >>
  /\ startManifest = EmptyManifest
  /\ verifyResult = [missing |-> 0, verified |-> 0, listed |-> FALSE]
  /\ runs = 0
  /\ verifies = 0
  /\ userOps = 0
  /\ faults = 0
  /\ fileState = "missing"
  /\ lastOp = "init"
  /\ cli = NoCli
  /\ strat = NoStrat
  /\ dl = NoDl
  /\ \E remote \in Remotes, pageSize \in 1..MaxPageSize, shape \in {"array", "wrapped"},
        failAt \in 0..MaxFailAt, failKind \in {"error", "malformed"},
        lyricsOnly \in BOOLEAN :
       /\ failAt = 0 => failKind = "error"
       /\ lyricsOnly => engine = "legacy"
       /\ fetch = [FetchOf(remote, pageSize, shape, failAt, failKind)
                     EXCEPT !.lyricsOnly = lyricsOnly]

SpecFetchModes == InitFetchModes /\ [][NextFetch]_vars

\* -------------------------------------------------- reading the arguments

\* the variables of a sync run before the first run
IdleSync ==
  /\ disk = EmptyManifest
  /\ manifest = EmptyManifest
  /\ outFiles = {}
  /\ staging = {}
  /\ pc = "idle"
  /\ engine = "modular"
  /\ apiTracks = << >>
  /\ usernameMap = << >>
  /\ newCount = 0
  /\ pending = << >>
  /\ idx = 0
  /\ consecutiveFailures = 0
  /\ batchSize = 1
  /\ batchDownloaded = << >>
  /\ downloaded = 0
  /\ stopped = FALSE
  /\ results = << >>
  /\ startManifest = EmptyManifest
  /\ verifyResult = [missing |-> 0, verified |-> 0, listed |-> FALSE]
  /\ runs = 0
  /\ verifies = 0
  /\ userOps = 0
  /\ faults = 0
  /\ fileState = "missing"
  /\ lastOp = "init"

InitArgs ==
  /\ IdleSync
  /\ fetch = NoFetch
  /\ strat = NoStrat
  /\ dl = NoDl
  /\ \E arg \in BatchArgs : cli = [arg |-> arg, parsed |-> FALSE, size |-> 0]

\* the module computes BATCH_SIZE from CLI.batch
ParseBatch ==
  /\ ~cli.parsed
  /\ cli' = [cli EXCEPT !.parsed = TRUE, !.size = BatchSizeOf(cli.arg)]
  /\ UNCHANGED <<syncVars, fetch, strat, dl>>

NextArgs == ParseBatch

SpecArgs == InitArgs /\ [][NextArgs]_vars

\* ------------------------------------------- the strategies of one item

InitStrategy ==
  /\ IdleSync
  /\ fetch = NoFetch
  /\ cli = NoCli
  /\ dl = NoDl
  /\ \E bearer \in BOOLEAN, first \in DirectOutcomes, refresh \in {"ok", "throw"},
        second \in DirectOutcomes, ui \in {"true", "false", "throw"} :
       strat = StratOf(bearer, first, refresh, second, ui)

\* if (bearer): the first downloadWavViaBlob.  A failure whose message holds
\* 401 or 403 leads to the refresh, any other failure and a raised exception
\* (caught by the inner catch) to the fallback.
DirectFirst ==
  /\ strat.at = "start"
  /\ strat.bearer
  /\ strat' = [strat EXCEPT
       !.trace = Append(@, "direct"),
       !.success = strat.first.kind = "ok",
       !.at = IF strat.first.kind = "ok" THEN "end"
              ELSE IF strat.first.kind = "error" /\ IsAuthError(strat.first.error)
                   THEN "refresh" ELSE "ui"]
  /\ UNCHANGED <<syncVars, fetch, cli, dl>>

\* bearer is "": the direct strategy is skipped
NoBearer ==
  /\ strat.at = "start"
  /\ ~strat.bearer
  /\ strat' = [strat EXCEPT !.at = "ui"]
  /\ UNCHANGED <<syncVars, fetch, cli, dl>>

\* extractAuthFromCookies inside the retry; when it raises, catch {} swallows
RefreshCredential ==
  /\ strat.at = "refresh"
  /\ strat' = [strat EXCEPT
       !.trace = Append(@, "refresh"),
       !.at = IF strat.refresh = "ok" THEN "retry" ELSE "ui"]
  /\ UNCHANGED <<syncVars, fetch, cli, dl>>

\* the retry of downloadWavViaBlob with the refreshed bearer
DirectSecond ==
  /\ strat.at = "retry"
  /\ strat' = [strat EXCEPT
       !.trace = Append(@, "direct"),
       !.success = strat.second.kind = "ok",
       !.at = IF strat.second.kind = "ok" THEN "end" ELSE "ui"]
  /\ UNCHANGED <<syncVars, fetch, cli, dl>>

\* if (!success) success = await downloadViaUI(...); an exception it raises
\* leaves the try of the item
Interactive ==
  /\ strat.at = "ui"
  /\ strat' = [strat EXCEPT
       !.trace = Append(@, "ui"),
       !.success = strat.ui = "true",
       !.threw = strat.ui = "throw",
       !.at = "end"]
  /\ UNCHANGED <<syncVars, fetch, cli, dl>>

NextStrategy ==
  \/ DirectFirst
  \/ NoBearer
  \/ RefreshCredential
  \/ DirectSecond
  \/ Interactive

SpecStrategy == InitStrategy /\ [][NextStrategy]_vars

\* ------------------------------------------------ the downloads of one item

dlFrame == <<syncVars, fetch, cli, strat>>

InitDownload ==
  /\ IdleSync
  /\ fetch = NoFetch
  /\ cli = NoCli
  /\ strat = NoStrat
  /\ \E resp \in Responses, ui \in UiOutcomes : dl = DlOf(resp, ui)

\* downloadWavViaBlob: page.evaluate starts the fetch of the download endpoint
DirectFetch ==
  /\ dl.at = "start"
  /\ dl' = [dl EXCEPT !.at = "fetching", !.net = @ + 1]
  /\ UNCHANGED dlFrame

\* The fetch settles and the checks run in the page.  A body that passes is
\* handed to the browser by a.click(): the browser starts a download and
\* will raise its download event; evaluate returns { ok: true }.  Any other
\* body gives { ok: false, error } and the loop goes to the interactive
\* strategy.
DirectChecked ==
  /\ dl.at = "fetching"
  /\ LET check == InPageCheck(dl.resp)
     IN dl' = IF check = "ok"
              THEN [dl EXCEPT !.net = @ - 1, !.check = check, !.at = "clicked",
                              !.downloads = @ \cup {"blob"}, !.event = "pending"]
              ELSE [dl EXCEPT !.net = @ - 1, !.check = check, !.at = "fallback"]
  /\ UNCHANGED dlFrame

\* const download = await page.waitForEvent("download", { timeout: 15000 }),
\* called after evaluate has returned
DirectListens ==
  /\ dl.at = "clicked"
  /\ dl' = [dl EXCEPT !.at = "waiting", !.listening = TRUE]
  /\ UNCHANGED dlFrame

\* the browser raises the download event of the click; the page object
\* hands it to the listeners it has at that moment
DownloadEvent ==
  /\ dl.event = "pending"
  /\ dl' = [dl EXCEPT !.event = "raised", !.observed = dl.listening /\ dl.at = "waiting"]
  /\ UNCHANGED dlFrame

\* the browser has written the body of the click's download
BlobWritten ==
  /\ "blob" \in dl.downloads
  /\ dl' = [dl EXCEPT !.downloads = @ \ {"blob"}]
  /\ UNCHANGED dlFrame

\* await download.saveAs(filepath); return { ok: true }
DirectSaves ==
  /\ dl.at = "waiting"
  /\ dl.observed
  /\ "blob" \notin dl.downloads
  /\ dl' = [dl EXCEPT !.at = "classify", !.via = "direct", !.staged = dl.resp.size,
                      !.success = TRUE, !.listening = FALSE]
  /\ UNCHANGED dlFrame

\* waitForEvent saw no download event for 15 seconds and raises; the catch
\* around the direct strategy logs it and the interactive strategy follows
DirectTimesOut ==
  /\ dl.at = "waiting"
  /\ ~dl.observed
  /\ dl' = [dl EXCEPT !.at = "fallback", !.timedOut = TRUE, !.listening = FALSE]
  /\ UNCHANGED dlFrame

\* downloadViaUI: page.goto(track.songUrl)
UiGoto ==
  /\ dl.at = "fallback"
  /\ dl' = [dl EXCEPT !.at = "loading", !.net = @ + 1]
  /\ UNCHANGED dlFrame

\* downloadViaUI after the page loaded: without the menu button it returns
\* false; with it, downloadPromise = page.waitForEvent("download") and
\* wavOption.first().click() start the interactive download
UiClicks ==
  /\ dl.at = "loading"
  /\ dl' = IF dl.ui = 0
            THEN [dl EXCEPT !.net = @ - 1, !.at = "classify"]
            ELSE [dl EXCEPT !.net = @ - 1, !.at = "uiwaiting",
                            !.downloads = @ \cup {"ui"}]
  /\ UNCHANGED dlFrame

\* await downloadPromise; await download.saveAs(filepath); return true
UiSaves ==
  /\ dl.at = "uiwaiting"
  /\ dl' = [dl EXCEPT !.at = "classify", !.via = "ui", !.staged = dl.ui,
                      !.success = TRUE, !.downloads = @ \ {"ui"}]
  /\ UNCHANGED dlFrame

\* the classification of the item and the saveManifest that follows it
ClassifyItem ==
  /\ dl.at = "classify"
  /\ dl' = [dl EXCEPT
       !.verdict = IF dl.success /\ dl.staged > 0
                   THEN IF StagedAccepts(dl.staged) THEN "accepted" ELSE "small"
                   ELSE "none",
       !.staged = IF dl.success /\ dl.staged > 0 /\ ~StagedAccepts(dl.staged) THEN 0 ELSE @,
       !.at = "writing",
       !.writes = @ + 1]
  /\ UNCHANGED dlFrame

\* writeFile of saveManifest returns
ManifestWritten ==
  /\ dl.at = "writing"
  /\ dl' = [dl EXCEPT !.at = "end", !.writes = @ - 1]
  /\ UNCHANGED dlFrame

NextDownload ==
  \/ DirectFetch
  \/ DirectChecked
  \/ DirectListens
  \/ DownloadEvent
  \/ BlobWritten
  \/ DirectSaves
  \/ DirectTimesOut
  \/ UiGoto
  \/ UiClicks
  \/ UiSaves
  \/ ClassifyItem
  \/ ManifestWritten

SpecDownload == InitDownload /\ [][NextDownload]_vars

\* ============================================================== properties

\* the acquisition state of a manifest entry
AcquisitionState(t) == <<t.status, t.driveFilename, t.error, t.lastAttempt, t.fileSizeMB>>

\* the listing names the id
Listed(gens, id) == \E k \in 1..Len(gens) : gens[k].id = id

\* C1: for every item that is in the manifest before a merge, the merge
\* leaves status, driveFilename, error, lastAttempt and fileSizeMB as they
\* were, whether or not the item's file is in the output directory; the item
\* itself stays in the manifest under its id.
C1_MergeKeepsAcquisitionState ==
  [][(pc = "idle" /\ pc' = "merged") =>
       \A id \in DOMAIN disk.tracks :
         /\ id \in DOMAIN manifest'.tracks
         /\ manifest'.tracks[id].id = id
         /\ AcquisitionState(manifest'.tracks[id]) = AcquisitionState(disk.tracks[id])]_vars

\* C1 witness: a merge has just run on a listing that names an acquired item
\* whose file is no longer in the output directory; the item is still
\* acquired, with its file name, while the merge would create it as pending.
C1_Witness ==
  /\ pc = "merged"
  /\ \E id \in DOMAIN manifest.tracks :
       /\ Listed(apiTracks, id)
       /\ manifest.tracks[id].status = "downloaded"
       /\ manifest.tracks[id].lastAttempt # NoTime
       /\ manifest.tracks[id].driveFilename \notin outFiles
       /\ NewTrack(Gen(id), ArtistOf(usernameMap, "u1"), outFiles).status = "pending"

\* C2: a second merge with the same manifest, listing, label map and output
\* directory leaves the manifest as the first merge left it and returns
\* newCount 0.
C2_MergeIdempotent ==
  pc = "merged" =>
    mergeTracks(manifest, apiTracks, usernameMap, outFiles)
      = [m |-> manifest, newCount |-> 0]

\* C2 witness: the first merge both created an entry and refreshed the entry
\* of an item that had failed in an earlier run.
C2_Witness ==
  /\ pc = "merged"
  /\ newCount > 0
  /\ \E id \in DOMAIN manifest.tracks :
       /\ Listed(apiTracks, id)
       /\ manifest.tracks[id].status = "failed"
       /\ manifest.tracks[id].artist = ArtistOf(usernameMap, "u1")

\* the status changes the status model allows; byVerifier: the step is a
\* --verify run
AllowedChange(a, b, byVerifier) ==
  \/ a = b
  \/ a = "pending" /\ b \in {"downloaded", "failed"}
  \/ a = "failed" /\ b \in {"pending", "downloaded"}
  \/ a = "downloaded" /\ b = "pending" /\ byVerifier

\* C3: the status of an item of the persisted manifest changes only by
\* pending -> downloaded, pending -> failed, failed -> pending,
\* failed -> downloaded and, in a --verify run only, downloaded -> pending;
\* no step takes an item from downloaded to failed.
C3_StatusTransitions ==
  [][\A id \in DOMAIN disk.tracks :
       /\ id \in DOMAIN disk'.tracks
       /\ AllowedChange(disk.tracks[id].status, disk'.tracks[id].status,
                        lastOp' = "verify")]_vars

\* C4: in every persisted manifest, an item has a driveFilename exactly when
\* its status is downloaded.
C4_DriveFilenameIffDownloaded ==
  \A id \in DOMAIN disk.tracks :
    (disk.tracks[id].driveFilename # NoName) <=> (disk.tracks[id].status = "downloaded")

\* C5: in every persisted manifest, an item with a fileSizeMB has status
\* downloaded.
C5_FileSizeOnlyOnDownloaded ==
  \A id \in DOMAIN disk.tracks :
    (disk.tracks[id].fileSizeMB # NoSize) => (disk.tracks[id].status = "downloaded")

\* the item of a results entry ended failed: its download was not accepted,
\* or the catch of the item loop marked it failed
IsFailure(r) == ~r.ok \/ r.threw

RECURSIVE TrailingFailures(_)
\* the number of failed items at the end of the results, back to the last
\* item that did not fail
TrailingFailures(rs) ==
  IF Len(rs) = 0 \/ ~IsFailure(rs[Len(rs)]) THEN 0
  ELSE 1 + TrailingFailures(SubSeq(rs, 1, Len(rs) - 1))

\* C6: after each processed item, with N the MAX_CONSECUTIVE_FAILURES of the
\* engine: the run does not go on once the last N items all failed, and the
\* breaker stops it only then; an item that succeeded leaves the counter at
\* zero; a run in which every item fails attempts exactly N items of a queue
\* of N or more.
C6_CircuitBreaker ==
  lastOp = "item" =>
    LET N == MaxConsecutiveFailures(engine)
        n == TrailingFailures(results)
    IN /\ n >= N => pc # "loop"
       /\ stopped => n = N
       /\ ~IsFailure(results[Len(results)]) => consecutiveFailures = 0
       /\ ((\A j \in 1..Len(results) : IsFailure(results[j]))
            /\ pc # "loop" /\ Len(pending) >= N) => Len(results) = N

\* C7: both engines stop exactly when their counter of consecutive failures
\* has reached 5, the limit the README documents.
C7_LimitIsFive ==
  lastOp = "item" => (stopped <=> consecutiveFailures >= MaxFailReadme)

\* C8: after each processed item of a run without failures of the
\* environment, the persisted manifest holds downloaded for every processed
\* item whose download was accepted and failed for every other processed item.
C8_ManifestRecordsOutcomes ==
  (lastOp = "item" /\ faults = 0) =>
    \A j \in 1..Len(results) :
      disk.tracks[results[j].id].status
        = IF results[j].ok THEN "downloaded" ELSE "failed"

\* the process is inside an engine run, from the queue to its return
InRun == pc \in {"loop", "final", "done"} /\ lastOp \in {"start", "item", "return", "abort"}

\* C9: during and after an engine run, every attempted item was pending or
\* failed when the queue was built, and every item that was downloaded then
\* is not in the queue, was not attempted and has the same entry in the
\* manifest object and in the persisted manifest.
C9_AcquiredNeverAttempted ==
  InRun =>
    /\ \A j \in 1..Len(results) :
         startManifest.tracks[results[j].id].status \in {"pending", "failed"}
    /\ \A id \in DOMAIN startManifest.tracks :
         startManifest.tracks[id].status = "downloaded" =>
           /\ id \notin SeqRange(pending)
           /\ \A j \in 1..Len(results) : results[j].id # id
           /\ manifest.tracks[id] = startManifest.tracks[id]
           /\ disk.tracks[id] = startManifest.tracks[id]

\* C9 witness: a run that started with an acquired item and with queued
\* items has attempted every item of its queue and returned.
C9_Witness ==
  /\ pc = "done"
  /\ lastOp \in {"item", "return"}
  /\ Len(results) > 0
  /\ Len(results) = Len(pending)
  /\ \E id \in DOMAIN startManifest.tracks : startManifest.tracks[id].status = "downloaded"
  /\ \E j \in 1..Len(results) : results[j].ok

\* C10: the queue holds each item that was pending or failed when it was
\* built once; no failed item precedes a pending one, within either group
\* no item precedes a more recently created one, and the items are attempted
\* in the order of the queue.
C10_QueueOrder ==
  InRun =>
    /\ SeqRange(pending) = {id \in DOMAIN startManifest.tracks :
                              startManifest.tracks[id].status \in {"pending", "failed"}}
    /\ Cardinality(SeqRange(pending)) = Len(pending)
    /\ \A j, k \in 1..Len(pending) :
         j < k =>
           LET a == startManifest.tracks[pending[j]]
               b == startManifest.tracks[pending[k]]
           IN /\ a.status = "failed" => b.status = "failed"
              /\ a.status = b.status => TimeOf(a) >= TimeOf(b)
    /\ Len(results) <= Len(pending)
    /\ \A j \in 1..Len(results) : results[j].id = pending[j]

\* C10 witness: a run has attempted a queue that holds a pending item older
\* than a failed one and, in each group, items of different creation times.
C10_Witness ==
  /\ InRun
  /\ Len(results) = Len(pending)
  /\ \E j, k \in 1..Len(pending) :
       /\ startManifest.tracks[pending[j]].status = "pending"
       /\ startManifest.tracks[pending[k]].status = "failed"
       /\ TimeOf(startManifest.tracks[pending[j]]) < TimeOf(startManifest.tracks[pending[k]])
  /\ \E j, k \in 1..Len(pending) :
       /\ startManifest.tracks[pending[j]].status = "pending"
       /\ startManifest.tracks[pending[k]].status = "pending"
       /\ TimeOf(startManifest.tracks[pending[j]]) > TimeOf(startManifest.tracks[pending[k]])
  /\ \E j, k \in 1..Len(pending) :
       /\ startManifest.tracks[pending[j]].status = "failed"
       /\ startManifest.tracks[pending[k]].status = "failed"
       /\ TimeOf(startManifest.tracks[pending[j]]) > TimeOf(startManifest.tracks[pending[k]])

\* the step is a --verify run
VerifyStep == pc = "idle" /\ lastOp' = "verify"

\* the item has an id-named or a label-derived-name file in the directory
HasArtifact(track, files) ==
  UuidFilename(track.id) \in files \/ TitleFilename(track.artist, track.title) \in files

\* the acquired items of a manifest, and those of them without a file
Acquired(m) == {id \in DOMAIN m.tracks : m.tracks[id].status = "downloaded"}
Missing(m, files) == {id \in Acquired(m) : ~HasArtifact(m.tracks[id], files)}

\* what C11 says of one verify step
VerifyResetsMissing ==
  /\ \A id \in Missing(disk, outFiles) :
       /\ manifest'.tracks[id].status = "pending"
       /\ manifest'.tracks[id].driveFilename = NoName
       /\ manifest'.tracks[id].error # NoError
  /\ verifyResult'.missing = Cardinality(Missing(disk, outFiles))
  /\ verifyResult'.verified = Cardinality(Acquired(manifest'))
  /\ Acquired(manifest') = Acquired(disk) \ Missing(disk, outFiles)
  /\ disk' = manifest'

\* C11 as stated: every --verify run resets each acquired item that has
\* neither file in the output directory to pending, clears its driveFilename,
\* records a diagnostic, and returns the number of items it reset and the
\* number of acquired items it left acquired.
C11_VerifyResetsAlways == [][VerifyStep => VerifyResetsMissing]_vars

\* C11 amended: a --verify run that can list the output directory does so;
\* a run that cannot list it changes nothing and returns 0 and 0.
C11_VerifyResets ==
  [][VerifyStep =>
       IF verifyResult'.listed
       THEN VerifyResetsMissing
       ELSE /\ manifest' = disk
            /\ disk' = disk
            /\ verifyResult'.missing = 0
            /\ verifyResult'.verified = 0]_vars

\* C11 witness: a --verify run listed the directory, reset exactly one item
\* whose file had been deleted and left another acquired item as it was.
C11_Witness ==
  /\ lastOp = "verify"
  /\ verifyResult = [missing |-> 1, verified |-> 1, listed |-> TRUE]
  /\ \E id \in DOMAIN disk.tracks :
       /\ disk.tracks[id].status = "pending"
       /\ disk.tracks[id].error \in {VerifyMsgModular, VerifyMsgLegacy}
       /\ UuidFilename(id) \notin outFiles

\* C12: a --verify run leaves every pending or failed item and every
\* acquired item with a file in the output directory as it was, in the
\* manifest object and in the manifest file; it keeps the keys of the
\* manifest and their order, and it leaves the output directory and the
\* staging directory as they were.
C12_VerifyFrame ==
  [][VerifyStep =>
       /\ manifest'.keys = disk.keys
       /\ disk'.keys = disk.keys
       /\ DOMAIN manifest'.tracks = DOMAIN disk.tracks
       /\ DOMAIN disk'.tracks = DOMAIN disk.tracks
       /\ \A id \in DOMAIN disk.tracks :
            (disk.tracks[id].status \in {"pending", "failed"}
             \/ HasArtifact(disk.tracks[id], outFiles)) =>
              /\ manifest'.tracks[id] = disk.tracks[id]
              /\ disk'.tracks[id] = disk.tracks[id]
       /\ outFiles' = outFiles
       /\ staging' = staging]_vars

\* C12 witness: a --verify run has reset an item while the manifest also
\* holds a failed item with its diagnostic.
C12_Witness ==
  /\ lastOp = "verify"
  /\ verifyResult.listed
  /\ verifyResult.missing > 0
  /\ \E id \in DOMAIN disk.tracks :
       /\ disk.tracks[id].status = "failed"
       /\ disk.tracks[id].error # NoError

\* the step is the merge of a sync run
MergeStep == pc = "idle" /\ pc' = "merged"

\* the ids a merge step adds to the manifest
Created == DOMAIN manifest'.tracks \ DOMAIN disk.tracks

IsPrefix(p, q) == Len(p) <= Len(q) /\ \A k \in 1..Len(p) : p[k] = q[k]

\* C14: no step removes an entry of the manifest file or of the manifest
\* object or reorders the keys, and after every step each entry is stored
\* under the key that is its id.
C14_AppendOnly ==
  [][/\ IsPrefix(disk.keys, disk'.keys)
     /\ IsPrefix(manifest.keys, manifest'.keys)
     /\ DOMAIN disk.tracks \subseteq DOMAIN disk'.tracks
     /\ DOMAIN manifest.tracks \subseteq DOMAIN manifest'.tracks
     /\ \A id \in DOMAIN disk'.tracks : disk'.tracks[id].id = id
     /\ \A id \in DOMAIN manifest'.tracks : manifest'.tracks[id].id = id]_vars

\* C14 witness: after a merge whose listing does not name it, an item that
\* an earlier run attempted is still in the manifest, next to a new item.
C14_Witness ==
  /\ pc = "merged"
  /\ newCount = 1
  /\ \E id \in DOMAIN manifest.tracks :
       /\ ~Listed(apiTracks, id)
       /\ manifest.tracks[id].lastAttempt # NoTime

\* C15: a save is atomic for the readers of the manifest file: after a save
\* that was interrupted, the file holds a complete manifest (the previous
\* one or the new one), never a partly written one.
C15_SaveAtomic ==
  [][lastOp' = "crash" => fileState' = "ok"]_vars

\* a run starts: the manifest file is loaded
LoadStep == pc = "idle" /\ lastOp' \in {"merge", "fatal"}

\* C16: load never makes a run fail: on a manifest file that is missing,
\* unreadable or anything else than a well-formed manifest, the run goes on
\* with a fresh manifest without items, and the merge runs on it and saves.
C16_LoadNeverFatal ==
  [][(LoadStep /\ fileState # "ok") =>
       /\ lastOp' = "merge"
       /\ manifest' = mergeTracks(EmptyManifest, apiTracks', usernameMap', outFiles).m
       /\ disk' = manifest'
       /\ fileState' = "ok"]_vars

\* the two enumerations of the listing
Fetchers == {fetch.fav, fetch.pub}

NoDuplicateIds(all) ==
  \A i, j \in 1..Len(all) : all[i].id = all[j].id => i = j

\* every entry is the first record of its id that the remote holds
FirstOccurrences(all, remote) ==
  \A i \in 1..Len(all) :
    /\ all[i].id # NoId
    /\ \A k \in 1..Len(remote) : remote[k].id = all[i].id => all[i].at <= k

\* C17: the sequence fetchAll returns (and the sequence it holds after any
\* page) has no two entries with the same id, whether the remote repeats an
\* id on different pages or within one page; an id is kept at its first
\* occurrence.
C17_NoDuplicates ==
  \A f \in Fetchers : NoDuplicateIds(f.all) /\ FirstOccurrences(f.all, fetch.remote)

\* records k, l of the remote are on different pages
OnDifferentPages(k, l) == (k - 1) \div fetch.pageSize # (l - 1) \div fetch.pageSize

C17_Witness ==
  /\ fetch.fav.done /\ fetch.pub.done
  /\ fetch.failAt = 0
  /\ \E k, l, n \in 1..Len(fetch.remote) :
       /\ k < l /\ l < n
       /\ fetch.remote[k].id # NoId
       /\ fetch.remote[k].id = fetch.remote[l].id /\ ~OnDifferentPages(k, l)
       /\ fetch.remote[k].id = fetch.remote[n].id /\ OnDifferentPages(k, n)
       /\ \A f \in Fetchers : Len(f.reqs) * fetch.pageSize >= n
                               /\ \E i \in 1..Len(f.all) : f.all[i] = fetch.remote[k]

\* page k of the listing (k = 1, 2, ...)
PageOf(k) == Window(fetch.remote, (k - 1) * fetch.pageSize, fetch.pageSize)

\* page k is short, empty or failed
Stops(k) == k = fetch.failAt \/ Len(PageOf(k)) < fetch.pageSize

\* the first page that is short, empty or failed
FirstStop ==
  CHOOSE k \in 1..(Len(fetch.remote) + 1) : Stops(k) /\ \A j \in 1..(k - 1) : ~Stops(j)

\* the records of the pages up to the first stop; a failed page gives none
ServedRecords ==
  SubSeq(fetch.remote, 1,
         Min(Len(fetch.remote),
             IF FirstStop = fetch.failAt THEN (FirstStop - 1) * fetch.pageSize
             ELSE FirstStop * fetch.pageSize))

\* C18: fetchAll requests pages until the first page that is short, empty
\* or failed, then stops and returns what the pages up to there gave, without
\* raising; both enumerations come to an end.
C18_StopsAtFirstTerminalPage ==
  /\ [](\A f \in Fetchers :
          /\ Len(f.reqs) <= FirstStop
          /\ f.done <=> Len(f.reqs) = FirstStop
          /\ f.done => f.all = Collect([all |-> << >>, seen |-> {}], ServedRecords).all)
  /\ <>(\A f \in Fetchers : f.done)

C18_Witness ==
  /\ fetch.fav.done /\ fetch.fav.end = "failed"
  /\ fetch.pub.done /\ fetch.pub.end = "failed"
  /\ Len(fetch.fav.reqs) = 3
  /\ Len(fetch.fav.all) >= 2

\* C19: on the same listing and page size the enumeration by page index and
\* the enumeration by running offset request the same windows, stop under the
\* same conditions and return the same sequence.
C19_SameEnumeration ==
  LET fav == fetch.fav
      pub == fetch.pub
  IN /\ \A k \in 1..Min(Len(fav.reqs), Len(pub.reqs)) :
          /\ fav.reqs[k][1] * fav.reqs[k][2] = pub.reqs[k][1]
          /\ fav.reqs[k][2] = pub.reqs[k][2]
     /\ Len(fav.reqs) = Len(pub.reqs) =>
          /\ fav.all = pub.all
          /\ fav.done = pub.done
          /\ fav.end = pub.end
     /\ (fav.done /\ pub.done) => (Len(fav.reqs) = Len(pub.reqs) /\ fav.all = pub.all)

C19_Witness ==
  /\ fetch.fav.done /\ fetch.pub.done
  /\ fetch.pageSize = 2
  /\ Len(fetch.fav.reqs) = 3
  /\ fetch.fav.reqs[3][1] = 2 /\ fetch.pub.reqs[3][1] = 4
  /\ fetch.fav.end = "empty"
  /\ Len(fetch.pub.all) >= 2

\* the batch copy of this step ran to its end: inside the loop it empties
\* the batch, after the loop the call returns
PromotionCompleted ==
  \/ pc = "loop" /\ batchDownloaded # << >> /\ batchDownloaded' = << >>
  \/ pc = "final" /\ batchDownloaded # << >> /\ lastOp' = "return"

CopyFailed(t) == t.status = "failed" /\ t.error = CopyFailedMsg

\* C20: an item whose copy to the output failed is marked failed with
\* "Copy to output failed" and its staged file is still in the staging
\* directory, in a batch copy inside the loop and in the final batch.
C20_CopyFailureKeepsStaged ==
  [][\A id \in DOMAIN manifest'.tracks :
       /\ CopyFailed(manifest'.tracks[id]) => id \in staging'
       /\ (PromotionCompleted /\ id \in SeqRange(batchDownloaded)
             /\ UuidFilename(id) \notin outFiles')
            => CopyFailed(manifest'.tracks[id])]_vars

\* C21: when no credential can be extracted or the probe of the listing
\* fails, the run ends at once with exit status 1: no listing is fetched, the
\* manifest file is not written and no item is attempted.
C21_AuthFailureEndsRun ==
  [][/\ lastOp' = "authfail" =>
          /\ pc' = "done" /\ ExitStatus(lastOp') = 1
          /\ apiTracks' = apiTracks /\ newCount' = newCount
          /\ disk' = disk /\ fileState' = fileState /\ manifest' = manifest
          /\ results' = results /\ pending' = pending
          /\ outFiles' = outFiles /\ staging' = staging
     /\ lastOp = "authfail" => lastOp' = "exit"]_vars

C21_Witness ==
  /\ lastOp = "authfail"
  /\ runs = 2
  /\ \E id \in DOMAIN disk.tracks : disk.tracks[id].status = "pending"

\* C23: with --dry-run nothing is acquired: no item is attempted, the
\* output and staging directories are not written, and no pending or failed
\* item changes its status between the start and the end of the run.
C23_DryRunAcquiresNothing ==
  /\ [][lastOp' = "dryrun" =>
           /\ pc' = "done"
           /\ manifest' = manifest /\ disk' = disk
           /\ outFiles' = outFiles /\ staging' = staging
           /\ results' = results /\ lastOp = "merge"]_vars
  /\ [][lastOp = "dryrun" => lastOp' = "exit"]_vars
  /\ [][\A id \in DOMAIN disk.tracks :
           (pc = "idle" /\ lastOp' = "merge" /\ fileState = "ok"
             /\ disk.tracks[id].status \in {"pending", "failed"})
           => manifest'.tracks[id].status = disk.tracks[id].status]_vars

C23_Witness ==
  /\ lastOp = "dryrun"
  /\ \E id \in DOMAIN manifest.tracks : manifest.tracks[id].status = "failed"
  /\ \E id \in DOMAIN manifest.tracks : manifest.tracks[id].status = "pending"

\* the outcomes of the strategies for each item of the queue
OutcomesFor(queue) == [1..Len(queue) -> Attempts]

\* the two engines, run on the same queue with the same outcomes, attempt
\* the same items in the same order and leave every item with the same status
SameRun(st, bsize, queue, outs) ==
  LET l == RunEngine("legacy", st, bsize, queue, outs)
      n == RunEngine("modular", st, bsize, queue, outs)
  IN /\ l.attempted = n.attempted
     /\ \A id \in DOMAIN st.m.tracks : l.m.tracks[id].status = n.m.tracks[id].status

\* C22: downloadPendingFavorites and downloadPendingTracks, given the same
\* queue and the same outcome of the strategies for every item and no failing
\* batch copy, attempt the same items in the same order and leave every item
\* with the same final status.
C22_EnginesEquivalent ==
  (pc = "loop" /\ lastOp = "start") =>
    \A b \in BatchSizes : \A outs \in OutcomesFor(pending) :
      SameRun(IterState, b, pending, outs)

\* C24: the batch size handed to the engine is a positive integer for every
\* value of --batch: 0, negative, not a number, absent.
C24_BatchSizePositive ==
  cli.parsed => (cli.size \in Nat /\ cli.size >= 1)

C24_Witness ==
  /\ cli.parsed
  /\ ~ParseInt(cli.arg).nan
  /\ ParseInt(cli.arg).val < 0
  /\ cli.size = 1

\* the number of calls of one kind in a trace
Count(trace, call) == Cardinality({k \in 1..Len(trace) : trace[k] = call})

\* the direct strategy succeeded
DirectSucceeded ==
  \/ Count(strat.trace, "direct") >= 1 /\ strat.first.kind = "ok"
  \/ Count(strat.trace, "direct") = 2 /\ strat.second.kind = "ok"

\* C26: for one item the direct strategy is tried at most twice and the
\* credential refreshed at most once; the second direct attempt comes only
\* after a first one that failed with HTTP 401 or 403 and after the refresh;
\* the interactive strategy is tried exactly once when the direct strategy
\* did not succeed and never when it did.
C26_StrategyOrder ==
  /\ Count(strat.trace, "direct") <= 2
  /\ Count(strat.trace, "refresh") <= 1
  /\ Count(strat.trace, "direct") = 2 =>
       /\ SubSeq(strat.trace, 1, 3) = <<"direct", "refresh", "direct">>
       /\ strat.first.kind = "error"
       /\ strat.first.status \in {401, 403}
  /\ Count(strat.trace, "ui") <= 1
  /\ DirectSucceeded => Count(strat.trace, "ui") = 0
  /\ (strat.at = "end" /\ ~DirectSucceeded) => Count(strat.trace, "ui") = 1

\* a step of an acquisition run: an iteration of the loop or the final batch
EngineStep == lastOp' \in {"item", "return", "abort"} /\ pc \in {"loop", "final"}

\* an iteration of the loop
ItemStep == pc = "loop" /\ lastOp' = "item"

\* the staged artifact of item id was accepted in this run (it exists and is
\* larger than the threshold)
Accepted(history, id) == \E k \in 1..Len(history) : history[k].id = id /\ history[k].ok

C27_SavedAfterEveryItem ==
  [][ItemStep => (disk' = manifest' /\ fileState' = "ok")]_vars

\* a run in which an item was accepted, an item failed and an item raised,
\* with the next item still to come and the file holding the manifest
C27_Witness ==
  /\ pc = "loop"
  /\ lastOp = "item"
  /\ idx < Len(pending)
  /\ \E k \in 1..Len(results) : results[k].ok /\ ~results[k].threw
  /\ \E k \in 1..Len(results) : ~results[k].ok /\ ~results[k].threw
  /\ \E k \in 1..Len(results) : results[k].threw
  /\ disk = manifest
  /\ disk # startManifest

\* the items attempted so far are the first items of the queue, in its order
AttemptedInOrder ==
  /\ Len(results) = idx
  /\ idx <= Len(pending)
  /\ \A k \in 1..Len(results) : results[k].id = pending[k]

\* no item stands twice in the queue
QueueDistinct == \A j, k \in 1..Len(pending) : j # k => pending[j] # pending[k]

\* the loop was left without the breaker
LoopEndedUntripped == pc \in {"final", "done"} /\ ~stopped

\* C28: in a run whose breaker does not trip every item of the queue is
\* attempted exactly once, in queue order; an item that fails or raises is
\* marked failed and the loop takes the next item; no item is attempted
\* twice; the run ends after the last item.
C28_EveryItemOnce ==
  /\ [](InRun => /\ AttemptedInOrder
                 /\ QueueDistinct
                 /\ LoopEndedUntripped => Len(results) = Len(pending))
  /\ [][(ItemStep /\ ~stopped') =>
          LET last == results'[Len(results')]
          IN /\ (~last.ok \/ last.threw) => manifest'.tracks[last.id].status = "failed"
             /\ idx' < Len(pending) => pc' = "loop"]_vars
  /\ (pc = "loop" ~> pc = "done")

\* a run that ended without the breaker, after an accepted, a failed and a
\* raising item, with all six items attempted
C28_Witness ==
  /\ InRun
  /\ pc = "done"
  /\ ~stopped
  /\ Len(pending) = QueueLen
  /\ Len(results) = QueueLen
  /\ \E k \in 1..Len(results) : results[k].ok
  /\ \E k \in 1..(Len(results) - 1) : ~results[k].ok /\ ~results[k].threw
  /\ \E k \in 1..(Len(results) - 1) : results[k].threw

\* C29: between two consecutive item attempts of a run a randomized delay
\* is made, whether the earlier item was accepted, failed or raised: an
\* iteration after which the loop takes another item has made the delay.
C29_DelayBetweenItems ==
  [][(ItemStep /\ pc' = "loop") => results'[Len(results')].delayed]_vars

\* C30: between two consecutive page requests of an enumeration a
\* randomized delay is made, in every mode of either program: each request
\* but the first was sent after a delay.
C30_DelayBetweenPages ==
  \A f \in Fetchers : \A k \in 1..(Len(f.reqs) - 1) : f.waits[k]

\* C31: the direct strategy reports success only for a body above the
\* threshold of the staged file: an item whose file the direct strategy
\* saved is accepted by the classification.
C31_DirectSizeAccepted ==
  (dl.via = "direct" /\ dl.verdict # "none") => dl.verdict = "accepted"

\* C32: at every moment of an item, also during the interactive fallback,
\* at most one network request, at most one download and at most one
\* manifest write is in flight.
C32_OneInFlight ==
  /\ dl.net <= 1
  /\ Cardinality(dl.downloads) <= 1
  /\ dl.writes <= 1

\* the items a step marks failed: those whose status becomes failed or
\* whose error is replaced, and the item of the iteration when its attempt
\* was not accepted or raised
MarkedFailed ==
  {id \in DOMAIN manifest.tracks :
     /\ manifest'.tracks[id].status = "failed"
     /\ \/ manifest.tracks[id].status # "failed"
        \/ manifest.tracks[id].error # manifest'.tracks[id].error
        \/ /\ ItemStep
           /\ id = pending[idx + 1]
           /\ ~results'[Len(results')].ok \/ results'[Len(results')].threw}

\* the counter the marks of a step start from: 0 when the item of the
\* iteration was accepted (consecutiveFailures = 0), else its value before
CounterBase ==
  IF ItemStep /\ results'[Len(results')].ok THEN 0 ELSE consecutiveFailures

\* every attempted item of the run is failed in the manifest
AllAttemptedFailed ==
  \A k \in 1..Len(results) : manifest.tracks[results[k].id].status = "failed"

\* C33: every time an item is marked failed in a run, also when its copy
\* to the output fails, the consecutive-failure counter is incremented;
\* hence a run in which every item ends failed stops after N items.
C33_EveryFailureCounted ==
  /\ [][EngineStep =>
          consecutiveFailures' >= CounterBase + Cardinality(MarkedFailed)]_vars
  /\ []((InRun /\ pc = "done" /\ AllAttemptedFailed)
          => Len(results) <= MaxConsecutiveFailures(engine))

\* downloadPendingTracks has returned
ModularReturned == engine = "modular" /\ pc = "done" /\ lastOp = "return"

\* the item was copied to the output: acquired, with its file name recorded
Promoted(t, id) == t.status = "downloaded" /\ t.driveFilename = UuidFilename(id)

\* the item is failed with the diagnostic of the copy
FailedAtCopy(t) == t.status = "failed" /\ t.error = CopyFailedMsg

\* C34: when the modular run returns, after the last item or after the
\* circuit breaker, every item whose file was staged and accepted in the run
\* is either promoted (acquired, file name recorded) or failed with the
\* diagnostic of the copy, and the manifest file holds these changes.
\* Until the return such an item may still stand in the batch that awaits
\* its copy.
C34_NoStagedLeftUnresolved ==
  (engine = "modular" /\ InRun) =>
    /\ \A k \in 1..Len(results) :
         results[k].ok =>
           LET id == results[k].id
           IN \/ Promoted(manifest.tracks[id], id)
              \/ FailedAtCopy(manifest.tracks[id])
              \/ ~ModularReturned /\ id \in SeqRange(batchDownloaded)
    /\ ModularReturned => (disk = manifest /\ fileState = "ok")

\* a run the circuit breaker ended, whose one accepted item failed at the
\* copy of the final batch
C34_Witness ==
  /\ ModularReturned
  /\ stopped
  /\ \E k \in 1..Len(results) :
       results[k].ok /\ FailedAtCopy(manifest.tracks[results[k].id])

\* the acquisition function has returned { downloaded, failed }
EngineReturned == InRun /\ pc = "done" /\ lastOp # "abort"

\* the items that were not acquired when the queue was built and are now
AcquiredInRun ==
  {id \in DOMAIN manifest.tracks :
     /\ startManifest.tracks[id].status # "downloaded"
     /\ manifest.tracks[id].status = "downloaded"}

\* C35: the downloaded count an acquisition run returns is the number of
\* items whose status became acquired in the run, each counted once, also
\* when a copy or the removal of a staged file fails in a batch copy.
C35_DownloadedCountExact ==
  EngineReturned => downloaded = Cardinality(AcquiredInRun)

\* C36: verify never resets an acquired item whose recorded file name is
\* the name of a file in the output directory, also after a merge has
\* refreshed the title or the artist of the item.
C36_VerifyKeepsPresentArtifact ==
  [][VerifyStep =>
       LET before == loadManifest(disk, fileState)
       IN \A id \in DOMAIN before.tracks :
            (before.tracks[id].status = "downloaded"
              /\ before.tracks[id].driveFilename \in outFiles)
            => manifest'.tracks[id].status = "downloaded"]_vars

\* C37: no two different items that are acquired record the same file
\* name: one file of the output directory is the artifact of one item.
C37_ArtifactNamesDistinct ==
  \A a, b \in DOMAIN manifest.tracks :
    (a # b
      /\ manifest.tracks[a].status = "downloaded"
      /\ manifest.tracks[b].status = "downloaded"
      /\ manifest.tracks[a].driveFilename # NoName)
    => manifest.tracks[a].driveFilename # manifest.tracks[b].driveFilename


\* C38: in the direct strategy the download event of the in-page click is
\* always observed: while the 15-second wait has not run out, a download
\* event that has been raised has been handed to the waiting listener, so
\* no payload that passed the in-page checks is lost to a missed event.
C38_DownloadEventObserved ==
  (dl.check = "ok" /\ dl.event = "raised" /\ ~dl.timedOut) => dl.observed

\* C39: a --verify run that cannot list the output directory leaves the
\* manifest object as it was loaded, leaves the manifest file alone and
\* returns missing = 0 and verified = 0, whatever acquired items the
\* manifest holds and whether or not their files exist.
C39_UnlistedVerifyChangesNothing ==
  [][(VerifyStep /\ ~verifyResult'.listed) =>
       /\ manifest' = loadManifest(disk, fileState)
       /\ disk' = disk
       /\ fileState' = fileState
       /\ verifyResult'.missing = 0
       /\ verifyResult'.verified = 0]_vars

\* C39 witness: a --verify run could not list the directory while the
\* manifest holds an acquired item without a file and an acquired item with
\* one; both are still acquired and the counts are 0 and 0.
C39_Witness ==
  /\ lastOp = "verify"
  /\ ~verifyResult.listed
  /\ verifyResult.missing = 0
  /\ verifyResult.verified = 0
  /\ Missing(manifest, outFiles) # {}
  /\ Acquired(manifest) \ Missing(manifest, outFiles) # {}

\* the step is a sync run whose listing came back empty
EmptyListingStep == pc = "idle" /\ runs' = runs + 1 /\ apiTracks' = << >>

\* C40: a sync run whose listing is empty ends at once: it leaves the
\* manifest file as it was, attempts no item (no queue is built, nothing is
\* staged or put into the output directory, no result is recorded) and no
\* step of a download loop follows it, whatever pending or failed items the
\* loaded manifest holds.
C40_EmptyListingEndsRun ==
  [][/\ EmptyListingStep =>
          /\ pc' = "done"
          /\ disk' = disk
          /\ fileState' = fileState
          /\ manifest' = loadManifest(disk, fileState)
          /\ pending' = pending
          /\ results' = results
          /\ staging' = staging
          /\ outFiles' = outFiles
     /\ lastOp \in {"empty", "nopage"} =>
          /\ pc = "done"
          /\ lastOp' = "exit"
          /\ disk' = disk]_vars

\* C40 witness: a run ended on an empty listing while the manifest it had
\* loaded holds a failed item and a pending item, both still as they were
\* in the manifest file.
C40_Witness ==
  /\ lastOp \in {"empty", "nopage"}
  /\ pc = "done"
  /\ manifest = disk
  /\ \E a, b \in DOMAIN manifest.tracks :
       /\ manifest.tracks[a].status = "failed"
       /\ manifest.tracks[b].status = "pending"

=============================================================================
